---- MODULE Spec2Model ----
(***************************************************************************)
(* A model of the Inspired Librarian reading-list tool:                    *)
(*   - the cover resolution engine of BookCard (src/unnamed/part_000),     *)
(*   - generateBookRecommendations and verifyBookCoverMatch of the         *)
(*     geminiService (src/inspired-library/components/StatsChart.tsx,      *)
(*     lines 51-270).                                                      *)
(* Text is modelled as a sequence of one-character strings, so that        *)
(* concatenation, substring search and template strings are computed, not  *)
(* assumed.  URLs are sequences of coarser tokens (protocol, host+path,    *)
(* identifier, suffix).                                                    *)
(***************************************************************************)
EXTENDS Integers, Sequences, FiniteSets, TLC

VARIABLES
    \* ---- cover resolution engine (BookCard) ----
    coverCache,     \* module-level Map: cacheKey -> proxied url (NoUrl = no entry)
    promiseCache,   \* module-level Map: cacheKey -> race promise id (0 = no entry)
    races,          \* the race promises created so far, by id
    cards,          \* the BookCard instances: effect position and component state
    fetchCalls,     \* number of fetch() calls issued, per cacheKey and source
    \* ---- recommendation orchestrator (geminiService) ----
    localStorage,   \* recommendation cache: cacheKey -> stored text (NoItem = no entry)
    apiKey,         \* process.env.API_KEY is set
    calls,          \* the invocations of generateBookRecommendations
    setItems,       \* every (key, text) the function has passed to localStorage.setItem
    \* ---- cover verification (geminiService) ----
    verifs,         \* the invocations of verifyBookCoverMatch
    \* ---- cache key construction, as a pure function of two requests ----
    keyPair,
    \* ---- manual cover upload (BookCard.handleFileChange, App) ----
    uploads,        \* the uploads: handler position and the card's state
    coverOverrides, \* App state: book id -> override url (NoUrl = no entry)
    \* ---- monthly view (App.handleFetchBooks) ----
    app,            \* App state: books, loading, error, and the fetches made
    \* ---- pure functions of the geminiService, each with its input ----
    split,          \* the category split of a requested count
    gradeRange,     \* getBlRange of a grade label
    scoring,        \* getRelevancyScore of a book, month, theme and query
    selection,      \* the candidate selection of a request over a catalog
    catalogLoad     \* parseBookData of a tab-separated text

coverVars == <<coverCache, promiseCache, races, cards, fetchCalls>>
recVars   == <<localStorage, calls, setItems>>
uploadVars == <<uploads, coverOverrides>>
pureVars  == <<split, gradeRange, scoring, selection, catalogLoad>>
vars      == <<coverCache, promiseCache, races, cards, fetchCalls,
               localStorage, apiKey, calls, setItems, verifs, keyPair,
               uploads, coverOverrides, app,
               split, gradeRange, scoring, selection, catalogLoad>>

(***************************************************************************)
(* Bounds of the model.                                                    *)
(***************************************************************************)
NumCards == 2
NumCalls == 2
NumVerifs == 2

(***************************************************************************)
(* Text helpers.                                                           *)
(***************************************************************************)
\* s.startsWith(p)
StartsWith(s, p) ==
    /\ Len(p) <= Len(s)
    /\ SubSeq(s, 1, Len(p)) = p

\* s.includes(p)
Includes(s, p) ==
    \E i \in 0..(Len(s) - Len(p)) : SubSeq(s, i + 1, i + Len(p)) = p

\* index (1-based) of the first occurrence of p in s, 0 when there is none
IndexOf(s, p) ==
    IF Includes(s, p)
    THEN CHOOSE i \in 1..(Len(s) - Len(p) + 1) :
            /\ SubSeq(s, i, i + Len(p) - 1) = p
            /\ \A j \in 1..(i - 1) : SubSeq(s, j, j + Len(p) - 1) # p
    ELSE 0

\* s.replace(p, q) with a string pattern: the first occurrence only
ReplaceFirst(s, p, q) ==
    LET i == IndexOf(s, p)
    IN  IF i = 0 THEN s
        ELSE SubSeq(s, 1, i - 1) \o q \o SubSeq(s, i + Len(p), Len(s))

(***************************************************************************)
(* Cover resolution engine.                                                *)
(***************************************************************************)
NoUrl == <<>>
Pending == <<"pending">>
Absent == <<"null">>

\* The (title, author) pairs of the displayed books.  Two of them differ
\* only in where the "-" falls between title and author.
Books ==
    { [title |-> <<"a">>,           author |-> <<"b">>],
      [title |-> <<"a", "-", "b">>, author |-> <<"c">>],
      [title |-> <<"a">>,           author |-> <<"b", "-", "c">>] }

\* const cacheKey = `${book.title}-${book.author}`
cacheKey(book) == book.title \o <<"-">> \o book.author

CoverKeys == { cacheKey(b) : b \in Books }

\* encodeURIComponent, token by token: ":" and "/" and "?" "=" "&" are escaped
\* inside a token, unreserved characters are kept
encodeURIComponent(s) ==
    [ i \in 1..Len(s) |->
        CASE s[i] = "covers.openlibrary.org/b/id/" -> "covers.openlibrary.org%2Fb%2Fid%2F"
          [] s[i] = "books.google.com/c?id="       -> "books.google.com%2Fc%3Fid%3D"
          [] s[i] = "&zoom=0"                      -> "%26zoom%3D0"
          [] s[i] = "&zoom=1"                      -> "%26zoom%3D1"
          [] s[i] = "https://"                     -> "https%3A%2F%2F"
          [] s[i] = "http://"                      -> "http%3A%2F%2F"
          [] s[i] = "data:"                        -> "data%3A"
          [] OTHER                                 -> s[i] ]

\* url.replace(/^https?:\/\//, '')
StripProtocol(url) ==
    IF Len(url) > 0 /\ Head(url) \in {"http://", "https://"} THEN Tail(url) ELSE url

\* A rewrite that hands the source url on as it is.
getProxiedUrlRaw(url) == url

\* getProxiedUrl: data: urls pass, others go through the image proxy
getProxiedUrl(url) ==
    IF StartsWith(url, <<"data:">>) THEN url
    ELSE <<"https://wsrv.nl/?url=">> \o encodeURIComponent(StripProtocol(url))
            \o <<"&w=400&output=webp">>

\* What the Open Library search answers: a network or JSON error, no docs,
\* a first doc without cover_i, or a first doc with a cover id.
OLResponses ==
    { [kind |-> "error"], [kind |-> "nodocs"], [kind |-> "nocover"],
      [kind |-> "cover", cover_i |-> "11"] }

\* What the Google Books volume search answers: an error, no items, an item
\* without imageLinks, or an item with thumbnail / smallThumbnail links
\* (NoUrl = the link is missing); a link is an http(s) url or a data: url.
GBResponses ==
    { [kind |-> "error"], [kind |-> "noitems"], [kind |-> "nolinks"],
      [kind |-> "links", thumbnail |-> NoUrl, smallThumbnail |-> NoUrl],
      [kind |-> "links", thumbnail |-> <<"http://", "books.google.com/c?id=", "21", "&zoom=1">>,
                         smallThumbnail |-> NoUrl],
      [kind |-> "links", thumbnail |-> NoUrl,
                         smallThumbnail |-> <<"https://", "books.google.com/c?id=", "21", "&zoom=1">>],
      [kind |-> "links", thumbnail |-> <<"data:", "image/png;base64,", "21">>,
                         smallThumbnail |-> NoUrl] }

Failed == [ok |-> FALSE, url |-> NoUrl]
Returned(u) == [ok |-> TRUE, url |-> u]
Running == [ok |-> FALSE, url |-> Pending]

\* The outcome of fetchOpenLibrary for a response: a url, or the thrown
\* "OL no cover".
fetchOpenLibrary(resp) ==
    IF resp.kind = "cover"
    THEN Returned(<<"https://", "covers.openlibrary.org/b/id/", resp.cover_i, "-L.jpg">>)
    ELSE Failed

\* The outcome of fetchGoogleBooks for a response: a url, or the thrown
\* "GB no cover".
fetchGoogleBooks(resp) ==
    IF resp.kind = "links"
    THEN LET url == IF resp.thumbnail # NoUrl THEN resp.thumbnail
                    ELSE resp.smallThumbnail
         IN  IF url # NoUrl
             THEN Returned(ReplaceFirst(ReplaceFirst(url, <<"http://">>, <<"https://">>),
                                        <<"&zoom=1">>, <<"&zoom=0">>))
             ELSE Failed
    ELSE Failed

\* A promise that takes the value of every resolve call.
resolveLast(race, v) == [race EXCEPT !.result = v]

\* resolve(v) on a race promise: only the first resolution takes effect
resolve(race, v) ==
    IF race.result = Pending THEN [race EXCEPT !.result = v] ELSE race

\* A checkFailure that gives up at the first failure.
checkFailureEager(race) ==
    LET r1 == [race EXCEPT !.failures = race.failures + 1]
    IN  IF r1.failures >= 1 THEN resolve(r1, Absent) ELSE r1

\* failures++; if (failures === 2) resolve(null)
checkFailure(race) ==
    LET r1 == [race EXCEPT !.failures = race.failures + 1]
    IN  IF r1.failures = 2 THEN resolve(r1, Absent) ELSE r1

\* .then(url => { if (url) resolve(getProxiedUrl(url)); else checkFailure(); })
\* .catch(checkFailure), applied to the settled outcome of one lookup
settle(race, outcome) ==
    IF outcome.ok /\ outcome.url # NoUrl
    THEN resolve(race, getProxiedUrl(outcome.url))
    ELSE checkFailure(race)

\* A loadCover that never looks at promiseCache before starting a race.
needsRaceAlways(key) == TRUE

\* A loadCover that starts a new race when the registered one gave absent.
needsRaceAfterAbsent(key) ==
    promiseCache[key] = 0 \/ races[promiseCache[key]].result = Absent

\* if (!promiseCache.has(cacheKey))
needsRace(key) == promiseCache[key] = 0

\* A cache check that never finds the key.
hasCoverNever(key) == FALSE

\* coverCache.has(cacheKey)
hasCover(key) == coverCache[key] # NoUrl

IdleCard ==
    [pc |-> "idle", book |-> [title |-> <<>>, author |-> <<>>], key |-> NoUrl, isMounted |-> FALSE, coverUrl |-> NoUrl,
     isLoadingImage |-> TRUE, awaits |-> 0]

\* The effect of a BookCard runs with an override: show it, no lookup.
MountOverride(c) ==
    /\ cards[c].pc = "idle"
    /\ \E book \in Books :
        cards' = [cards EXCEPT ![c] = [@ EXCEPT !.pc = "shown", !.book = book,
                     !.key = cacheKey(book),
                     !.coverUrl = <<"data:", "override">>, !.isLoadingImage = FALSE]]
    /\ UNCHANGED <<coverCache, promiseCache, races, fetchCalls>>
    /\ UNCHANGED <<recVars, apiKey, verifs, keyPair, uploadVars, app, pureVars>>

\* The effect runs without an override and the completed cache has the key.
MountCached(c) ==
    /\ cards[c].pc = "idle"
    /\ \E book \in Books :
        LET key == cacheKey(book) IN
        /\ hasCover(key)
        /\ cards' = [cards EXCEPT ![c] = [@ EXCEPT !.pc = "shown", !.book = book,
                        !.key = key,
                        !.coverUrl = coverCache[key], !.isLoadingImage = FALSE]]
    /\ UNCHANGED <<coverCache, promiseCache, races, fetchCalls>>
    /\ UNCHANGED <<recVars, apiKey, verifs, keyPair, uploadVars, app, pureVars>>

\* The effect runs loadCover up to its await: start a race (both fetches are
\* issued synchronously) unless promiseCache has the key, then await the
\* promise in promiseCache.
MountLoad(c) ==
    /\ cards[c].pc = "idle"
    /\ \E book \in Books :
        LET key == cacheKey(book)
            id  == Len(races) + 1
        IN
        /\ ~hasCover(key)
        /\ IF needsRace(key)
           THEN /\ races' = Append(races, [key |-> key, gb |-> Running, ol |-> Running,
                                           failures |-> 0, result |-> Pending])
                /\ promiseCache' = [promiseCache EXCEPT ![key] = id]
                /\ fetchCalls' = [fetchCalls EXCEPT ![key] =
                                    [gb |-> @.gb + 1, ol |-> @.ol + 1]]
           ELSE UNCHANGED <<races, promiseCache, fetchCalls>>
        /\ cards' = [cards EXCEPT ![c] = [@ EXCEPT !.pc = "awaiting", !.book = book,
                        !.key = key,
                        !.isMounted = TRUE, !.awaits = promiseCache'[key]]]
    /\ UNCHANGED coverCache
    /\ UNCHANGED <<recVars, apiKey, verifs, keyPair, uploadVars, app, pureVars>>

\* fetchGoogleBooks of race r settles and its then/catch handlers run.
GoogleBooksSettles(r) ==
    /\ r \in 1..Len(races)
    /\ races[r].gb = Running
    /\ \E resp \in GBResponses :
        LET outcome == fetchGoogleBooks(resp)
        IN  races' = [races EXCEPT ![r] = settle([@ EXCEPT !.gb = outcome], outcome)]
    /\ UNCHANGED <<coverCache, promiseCache, cards, fetchCalls>>
    /\ UNCHANGED <<recVars, apiKey, verifs, keyPair, uploadVars, app, pureVars>>

\* fetchOpenLibrary of race r settles and its then/catch handlers run.
OpenLibrarySettles(r) ==
    /\ r \in 1..Len(races)
    /\ races[r].ol = Running
    /\ \E resp \in OLResponses :
        LET outcome == fetchOpenLibrary(resp)
        IN  races' = [races EXCEPT ![r] = settle([@ EXCEPT !.ol = outcome], outcome)]
    /\ UNCHANGED <<coverCache, promiseCache, cards, fetchCalls>>
    /\ UNCHANGED <<recVars, apiKey, verifs, keyPair, uploadVars, app, pureVars>>

\* loadCover continues after its await, once the awaited race has resolved.
Resume(c) ==
    /\ cards[c].pc = "awaiting"
    /\ races[cards[c].awaits].result # Pending
    /\ LET url == races[cards[c].awaits].result
           key == cards[c].key
       IN  IF cards[c].isMounted
           THEN IF url # Absent
                THEN /\ coverCache' = [coverCache EXCEPT ![key] = url]
                     /\ cards' = [cards EXCEPT ![c] = [@ EXCEPT !.pc = "settled",
                                     !.coverUrl = url, !.isLoadingImage = FALSE]]
                ELSE /\ cards' = [cards EXCEPT ![c] = [@ EXCEPT !.pc = "settled",
                                     !.isLoadingImage = FALSE]]
                     /\ UNCHANGED coverCache
           ELSE /\ cards' = [cards EXCEPT ![c] = [@ EXCEPT !.pc = "settled"]]
                /\ UNCHANGED coverCache
    /\ UNCHANGED <<promiseCache, races, fetchCalls>>
    /\ UNCHANGED <<recVars, apiKey, verifs, keyPair, uploadVars, app, pureVars>>

\* The effect's cleanup: return () => { isMounted = false; }
Cleanup(c) ==
    /\ cards[c].pc \in {"awaiting", "settled"}
    /\ cards[c].isMounted
    /\ cards' = [cards EXCEPT ![c] = [@ EXCEPT !.isMounted = FALSE]]
    /\ UNCHANGED <<coverCache, promiseCache, races, fetchCalls>>
    /\ UNCHANGED <<recVars, apiKey, verifs, keyPair, uploadVars, app, pureVars>>

(***************************************************************************)
(* More text helpers: toLowerCase, trim, number formatting.                *)
(***************************************************************************)
\* the lower-case form of each upper-case letter
LowerOf ==
    [A |-> "a", B |-> "b", C |-> "c", D |-> "d", E |-> "e", F |-> "f", G |-> "g",
     H |-> "h", I |-> "i", J |-> "j", K |-> "k", L |-> "l", M |-> "m", N |-> "n",
     O |-> "o", P |-> "p", Q |-> "q", R |-> "r", S |-> "s", T |-> "t", U |-> "u",
     V |-> "v", W |-> "w", X |-> "x", Y |-> "y", Z |-> "z"]

LowerChar(c) == IF c \in DOMAIN LowerOf THEN LowerOf[c] ELSE c

\* s.toLowerCase()
toLowerCase(s) == [i \in 1..Len(s) |-> LowerChar(s[i])]

\* the white space that trim and parseFloat skip: space, tab, line ends
IsSpace(c) == c \in {" ", "\t", "\n", "\r"}

\* s.trim()
trim(s) ==
    IF \A i \in 1..Len(s) : IsSpace(s[i]) THEN <<>>
    ELSE LET a == CHOOSE i \in 1..Len(s) :
                    ~IsSpace(s[i]) /\ \A j \in 1..(i - 1) : IsSpace(s[j])
             b == CHOOSE i \in 1..Len(s) :
                    ~IsSpace(s[i]) /\ \A j \in (i + 1)..Len(s) : IsSpace(s[j])
         IN  SubSeq(s, a, b)

Digits == <<"0", "1", "2", "3", "4", "5", "6", "7", "8", "9">>

\* `${n}` for a non-negative integer n
RECURSIVE NumberToString(_)
NumberToString(n) ==
    IF n < 10 THEN <<Digits[n + 1]>>
    ELSE NumberToString(n \div 10) \o <<Digits[(n % 10) + 1]>>

Max(a, b) == IF a >= b THEN a ELSE b

(***************************************************************************)
(* The geminiService: catalog, grade ranges, relevance score.              *)
(***************************************************************************)
CACHE_KEY_PREFIX == <<"c", "e", "c", "_", "r", "e", "c", "s", "_", "v", "1", "3", "_">>

\* An omitted optional argument (query?: string).
Undefined == <<"undefined">>

\* JavaScript truthiness of an optional string
Truthy(s) == s # Undefined /\ s # <<>>

\* ALL_BOOKS_DATABASE: three catalog entries; bl in tenths.
Catalog ==
    << [id |-> "1", code |-> "M0001", title |-> <<"C", "a", "t", " ", "T", "a", "l", "e", "s">>, series |-> <<>>,
        author |-> <<"B", "o">>, lexile |-> "200L", bl |-> 12,
        genre |-> <<"F", "i", "c", "t", "i", "o", "n">>, theme |-> <<"A", "n", "i", "m", "a", "l", "s">>, summary |-> <<"a", " ", "d", "o", "g">>],
       [id |-> "2", code |-> "M0002", title |-> <<"S", "n", "o", "w", " ", "D", "a", "y">>, series |-> <<>>,
        author |-> <<"A", "l">>, lexile |-> "540L", bl |-> 31,
        genre |-> <<"F", "i", "c", "t", "i", "o", "n">>, theme |-> <<"H", "o", "l", "i", "d", "a", "y", "s">>, summary |-> <<"w", "i", "n", "t", "e", "r", " ", "f", "u", "n">>],
       [id |-> "3", code |-> "S0003", title |-> <<"B", "i", "g", " ", "W", "a", "r">>, series |-> <<>>,
        author |-> <<"D", "i">>, lexile |-> "900L", bl |-> 62,
        genre |-> <<"H", "i", "s", "t", "o", "r", "y">>, theme |-> <<"H", "i", "s", "t", "o", "r", "y">>, summary |-> <<"t", "h", "e", " ", "p", "a", "s", "t">>] >>

\* A double near a one-decimal value: t tenths, and e the sign of the
\* rounding error of the floating-point operation that produced it
\* (-1: just below t/10, 0: the double of the literal t/10, 1: just above).
Fp(t, e) == [t |-> t, e |-> e]
FpLeq(a, b) == a.t < b.t \/ (a.t = b.t /\ a.e <= b.e)

\* min - 0.3 in IEEE doubles: 0.1 - 0.3 = -0.19999999999999998 > -0.2, the
\* other minima of getBlRange give the double of the decimal result.
FpMinus03(t) == Fp(t - 3, IF t = 1 THEN 1 ELSE 0)
\* max + 0.3 in IEEE doubles: 2.8 + 0.3 = 3.0999999999999996 < 3.1, the
\* other maxima of getBlRange give the double of the decimal result.
FpPlus03(t) == Fp(t + 3, IF t = 28 THEN -1 ELSE 0)

\* A resolver that compares the label as it is written.
getBlRangeExact(grade) ==
    IF Includes(grade, <<"1", "s", "t">>) THEN [min |-> 1, max |-> 15]
    ELSE IF Includes(grade, <<"2", "n", "d">>) THEN [min |-> 10, max |-> 28]
    ELSE IF Includes(grade, <<"3", "r", "d">>) THEN [min |-> 20, max |-> 38]
    ELSE IF Includes(grade, <<"4", "t", "h">>) THEN [min |-> 30, max |-> 48]
    ELSE IF Includes(grade, <<"5", "t", "h">>) THEN [min |-> 35, max |-> 60]
    ELSE IF Includes(grade, <<"6", "t", "h">>) THEN [min |-> 35, max |-> 80]
    ELSE [min |-> 1, max |-> 130]

\* getBlRange, in tenths
getBlRange(grade) ==
    LET g == toLowerCase(grade) IN
    IF Includes(g, <<"1", "s", "t">>) THEN [min |-> 1, max |-> 15]
    ELSE IF Includes(g, <<"2", "n", "d">>) THEN [min |-> 10, max |-> 28]
    ELSE IF Includes(g, <<"3", "r", "d">>) THEN [min |-> 20, max |-> 38]
    ELSE IF Includes(g, <<"4", "t", "h">>) THEN [min |-> 30, max |-> 48]
    ELSE IF Includes(g, <<"5", "t", "h">>) THEN [min |-> 35, max |-> 60]
    ELSE IF Includes(g, <<"6", "t", "h">>) THEN [min |-> 35, max |-> 80]
    ELSE [min |-> 1, max |-> 130]

ThemeBuckets ==
    << [name |-> <<"a", "n", "i", "m", "a", "l", "s">>,
        keywords |-> {<<"a", "n", "i", "m", "a", "l">>,
                      <<"d", "o", "g">>,
                      <<"c", "a", "t">>,
                      <<"z", "o", "o">>,
                      <<"b", "i", "r", "d">>,
                      <<"n", "a", "t", "u", "r", "e">>}],
       [name |-> <<"f", "a", "n", "t", "a", "s", "y">>,
        keywords |-> {<<"m", "a", "g", "i", "c">>,
                      <<"f", "a", "n", "t", "a", "s", "y">>,
                      <<"w", "i", "z", "a", "r", "d">>,
                      <<"d", "r", "a", "g", "o", "n">>,
                      <<"f", "a", "i", "r", "y">>}],
       [name |-> <<"h", "i", "s", "t", "o", "r", "y">>,
        keywords |-> {<<"h", "i", "s", "t", "o", "r", "y">>,
                      <<"p", "a", "s", "t">>,
                      <<"b", "i", "o", "g", "r", "a", "p", "h", "y">>,
                      <<"p", "r", "e", "s", "i", "d", "e", "n", "t">>,
                      <<"w", "a", "r">>}],
       [name |-> <<"s", "c", "i", "e", "n", "c", "e">>,
        keywords |-> {<<"s", "c", "i", "e", "n", "c", "e">>,
                      <<"s", "p", "a", "c", "e">>,
                      <<"p", "l", "a", "n", "e", "t">>,
                      <<"m", "a", "t", "h">>,
                      <<"d", "i", "s", "c", "o", "v", "e", "r">>}],
       [name |-> <<"f", "r", "i", "e", "n", "d", "s", "h", "i", "p">>,
        keywords |-> {<<"f", "r", "i", "e", "n", "d">>,
                      <<"f", "e", "e", "l", "i", "n", "g">>,
                      <<"s", "o", "c", "i", "a", "l">>,
                      <<"f", "a", "m", "i", "l", "y">>}],
       [name |-> <<"m", "y", "s", "t", "e", "r", "y">>,
        keywords |-> {<<"m", "y", "s", "t", "e", "r", "y">>,
                      <<"d", "e", "t", "e", "c", "t", "i", "v", "e">>,
                      <<"s", "o", "l", "v", "e">>,
                      <<"a", "d", "v", "e", "n", "t", "u", "r", "e">>,
                      <<"s", "e", "c", "r", "e", "t">>}],
       [name |-> <<"s", "p", "o", "r", "t", "s">>,
        keywords |-> {<<"s", "p", "o", "r", "t">>,
                      <<"s", "o", "c", "c", "e", "r">>,
                      <<"b", "a", "s", "e", "b", "a", "l", "l">>,
                      <<"g", "a", "m", "e">>,
                      <<"h", "o", "b", "b", "y">>}],
       [name |-> <<"h", "o", "l", "i", "d", "a", "y", "s">>,
        keywords |-> {<<"h", "o", "l", "i", "d", "a", "y">>,
                      <<"c", "h", "r", "i", "s", "t", "m", "a", "s">>,
                      <<"t", "h", "a", "n", "k", "s", "g", "i", "v", "i", "n", "g">>,
                      <<"s", "e", "a", "s", "o", "n">>}],
       [name |-> <<"h", "u", "m", "o", "r">>,
        keywords |-> {<<"h", "u", "m", "o", "r">>,
                      <<"f", "u", "n", "n", "y">>,
                      <<"s", "i", "l", "l", "y">>,
                      <<"c", "l", "o", "w", "n">>,
                      <<"j", "o", "k", "e">>}] >>

SeasonalBonuses ==
    << [month |-> <<"j", "a", "n", "u", "a", "r", "y">>,
        keywords |-> {<<"s", "n", "o", "w">>, <<"w", "i", "n", "t", "e", "r">>}],
       [month |-> <<"f", "e", "b", "r", "u", "a", "r", "y">>,
        keywords |-> {<<"v", "a", "l", "e", "n", "t", "i", "n", "e">>, <<"h", "e", "a", "r", "t">>}],
       [month |-> <<"o", "c", "t", "o", "b", "e", "r">>,
        keywords |-> {<<"h", "a", "l", "l", "o", "w", "e", "e", "n">>, <<"p", "u", "m", "p", "k", "i", "n">>}],
       [month |-> <<"d", "e", "c", "e", "m", "b", "e", "r">>,
        keywords |-> {<<"c", "h", "r", "i", "s", "t", "m", "a", "s">>, <<"h", "o", "l", "i", "d", "a", "y">>}] >>

\* the searchable text of a book
SearchText(book) ==
    toLowerCase(book.title \o <<" ">> \o book.author \o <<" ">> \o book.theme
                \o <<" ">> \o book.summary \o <<" ">> \o book.genre)

\* the query part of getRelevancyScore: 50 title, 40 author, 20 text
QueryScore(book, q) ==
      (IF Includes(toLowerCase(book.title), q) THEN 50 ELSE 0)
    + (IF Includes(toLowerCase(book.author), q) THEN 40 ELSE 0)
    + (IF Includes(SearchText(book), q) THEN 20 ELSE 0)

\* A thematic score in which only the first matching bucket counts.
RECURSIVE ThemeScoreFirst(_, _, _)
ThemeScoreFirst(t, text, n) ==
    IF n = 0 THEN 0
    ELSE IF ThemeScoreFirst(t, text, n - 1) > 0 THEN ThemeScoreFirst(t, text, n - 1)
    ELSE IF /\ Includes(t, ThemeBuckets[n].name)
            /\ \E k \in ThemeBuckets[n].keywords : Includes(text, k)
         THEN 30 ELSE 0

RECURSIVE ThemeScore(_, _, _)
ThemeScore(t, text, n) ==
    IF n = 0 THEN 0
    ELSE ThemeScore(t, text, n - 1)
         + (IF /\ Includes(t, ThemeBuckets[n].name)
               /\ \E k \in ThemeBuckets[n].keywords : Includes(text, k)
            THEN 30 ELSE 0)

RECURSIVE SeasonScore(_, _, _)
SeasonScore(m, text, n) ==
    IF n = 0 THEN 0
    ELSE SeasonScore(m, text, n - 1)
         + (IF /\ m = SeasonalBonuses[n].month
               /\ \E k \in SeasonalBonuses[n].keywords : Includes(text, k)
            THEN 5 ELSE 0)

\* A scorer that never takes the query into account.
queryScoredNever(query) == FALSE

\* if (query && query.trim().length > 0)
queryScored(query) == Truthy(query) /\ Len(trim(query)) > 0

getRelevancyScore(book, month, theme, query) ==
    LET m    == toLowerCase(month)
        t    == toLowerCase(theme)
        text == SearchText(book)
        qs   == IF queryScored(query) THEN QueryScore(book, trim(toLowerCase(query)))
                ELSE 0
    IN  IF queryScored(query) /\ qs < 20 THEN 0 - 100
        ELSE qs
             + (IF t # <<"a", "l", "l", " ", "t", "h", "e", "m", "e", "s">> THEN ThemeScore(t, text, Len(ThemeBuckets)) ELSE 0)
             + SeasonScore(m, text, Len(SeasonalBonuses))

(***************************************************************************)
(* JSON text, as a sequence of tokens, and the values it denotes.          *)
(***************************************************************************)
JsonNull == [t |-> "null", hasBooks |-> FALSE, books |-> <<>>]
JsonBooks(ids) == [t |-> "object", hasBooks |-> TRUE, books |-> ids]

RECURSIVE JoinIds(_)
JoinIds(ids) ==
    IF Len(ids) = 0 THEN <<>>
    ELSE IF Len(ids) = 1 THEN <<ids[1]>>
    ELSE <<ids[1], ",">> \o JoinIds(Tail(ids))

\* JSON.stringify
stringify(v) ==
    IF v.t = "null" THEN <<"null">>
    ELSE IF ~v.hasBooks THEN <<"{", "}">>
    ELSE <<"{", "books", ":", "[">> \o JoinIds(v.books) \o <<"]", "}">>

\* whether the tokens between "[" and "]" are ids separated by commas
IsIdList(m) ==
    \/ m = <<>>
    \/ /\ Len(m) % 2 = 1
       /\ \A i \in 1..Len(m) : IF i % 2 = 1 THEN m[i] \in {"1", "2", "3"} ELSE m[i] = ","

\* JSON.parse: ok = FALSE stands for the SyntaxError it throws
parse(text) ==
    IF text = <<"null">> THEN [ok |-> TRUE, value |-> JsonNull]
    ELSE IF text = <<"{", "}">> THEN [ok |-> TRUE, value |-> [t |-> "object", hasBooks |-> FALSE, books |-> <<>>]]
    ELSE IF /\ Len(text) >= 6
            /\ SubSeq(text, 1, 4) = <<"{", "books", ":", "[">>
            /\ SubSeq(text, Len(text) - 1, Len(text)) = <<"]", "}">>
            /\ IsIdList(SubSeq(text, 5, Len(text) - 2))
         THEN LET m == SubSeq(text, 5, Len(text) - 2)
              IN  [ok |-> TRUE,
                   value |-> JsonBooks([i \in 1..((Len(m) + 1) \div 2) |-> m[2 * i - 1]])]
    ELSE [ok |-> FALSE, value |-> JsonNull]

(***************************************************************************)
(* generateBookRecommendations.                                            *)
(***************************************************************************)
Request(grade, month, theme, limit, query) ==
    [grade |-> grade, month |-> month, theme |-> theme, limit |-> limit, query |-> query]

\* `${CACHE_KEY_PREFIX}${grade}_${theme}_${month}_count_${limit}_search_${query || 'none'}`
recCacheKey(req) ==
    CACHE_KEY_PREFIX \o req.grade \o <<"_">> \o req.theme \o <<"_">> \o req.month
        \o <<"_", "c", "o", "u", "n", "t", "_">> \o NumberToString(req.limit)
        \o <<"_", "s", "e", "a", "r", "c", "h", "_">> \o (IF Truthy(req.query) THEN req.query ELSE <<"n", "o", "n", "e">>)

\* The requests the monthly view and other callers make in this model.
Requests ==
    { Request(<<"3", "r", "d", " ", "G", "r", "a", "d", "e">>, <<"J", "a", "n", "u", "a", "r", "y">>, <<"A", "n", "i", "m", "a", "l", "s">>, 10, q) :
        q \in {<<>>, <<"c", "a", "t">>, <<"z", "z", "z">>, <<"n", "o", "n", "e">>} }
    \cup { Request(<<"1", "s", "t", " ", "G", "r", "a", "d", "e">>, <<"M", "a", "r", "c", "h">>, <<"A", "l", "l", " ", "T", "h", "e", "m", "e", "s">>, 11, Undefined) }

RecKeys == { recCacheKey(r) : r \in Requests }

NoItem == <<"(no item)">>

\* the grade filter of the candidate selection
inGradeRange(book, grade) ==
    LET range == getBlRange(grade)
    IN  /\ FpLeq(FpMinus03(range.min), Fp(book.bl, 0))
        /\ FpLeq(Fp(book.bl, 0), FpPlus03(range.max))

\* indices into a catalog of the candidates, in catalog order
selectCandidates(catalog, req) ==
    IF ~Truthy(req.query)   \* if (!query) candidates = candidates.filter(...)
    THEN SelectSeq([i \in 1..Len(catalog) |-> i],
                   LAMBDA i : inGradeRange(catalog[i], req.grade))
    ELSE [i \in 1..Len(catalog) |-> i]

\* candidates, over ALL_BOOKS_DATABASE
candidates(req) == selectCandidates(Catalog, req)

\* A filter that lets every scored candidate through.
survivesAll(score) == TRUE

\* .filter(b => b.score > -5), scores in tenths
survives(score) == score > 0 - 50

\* scoredCandidates over a catalog: id, bl and combined score (tenths) of
\* the candidates that survive; jitter[i] is the Math.random() drawn for
\* catalog entry i
scoreCandidates(catalog, req, jitter) ==
    LET cands  == selectCandidates(catalog, req)
        scored == [n \in 1..Len(cands) |->
                    LET i == cands[n]
                    IN  [id |-> catalog[i].id, bl |-> catalog[i].bl,
                         score |-> 10 * getRelevancyScore(catalog[i], req.month,
                                                          req.theme, req.query)
                                   + jitter[i]]]
    IN  SelectSeq(scored, LAMBDA c : survives(c.score))

\* scoredCandidates, over ALL_BOOKS_DATABASE
scoredCandidates(req, jitter) == scoreCandidates(Catalog, req, jitter)

\* A sort that leaves the candidates in catalog order.
sortKeepsOrder(s) == s

\* Array.prototype.sort((a, b) => b.score - a.score): stable, descending
sortByScore(s) ==
    LET rank(i) == 1 + Cardinality({ j \in 1..Len(s) :
                        \/ s[j].score > s[i].score
                        \/ (s[j].score = s[i].score /\ j < i) })
    IN  [p \in 1..Len(s) |-> s[CHOOSE i \in 1..Len(s) : rank(i) = p]]

PoolFloor == 40

\* scoredCandidates.slice(0, Math.max(40, limit * 2)) of the sorted list
sliceTop(sorted, limit) ==
    LET n == Max(PoolFloor, limit * 2)
    IN  SubSeq(sorted, 1, IF Len(sorted) < n THEN Len(sorted) ELSE n)

\* topCandidates
topCandidates(req, jitter) ==
    sliceTop(sortByScore(scoredCandidates(req, jitter)), req.limit)

\* One Math.random() per catalog entry, in tenths.
JitterChoices == [1..Len(Catalog) -> {0, 9}]

\* topCandidates and recCacheKey of the requests of the model, tabulated
\* once (both are pure functions of their arguments)
TopCandidatesTable ==
    { <<req, jitter, topCandidates(req, jitter)>> : req \in Requests, jitter \in JitterChoices }
TopCandidatesOf(req, jitter) ==
    (CHOOSE row \in TopCandidatesTable : row[1] = req /\ row[2] = jitter)[3]
RecKeyTable == { <<req, recCacheKey(req)>> : req \in Requests }
RecKeyOf(req) == (CHOOSE row \in RecKeyTable : row[1] = req)[2]

\* A write guard that lets every parsed result through.
shouldCacheAlways(result) == TRUE

\* A write guard that keeps the first entry the function has written.
shouldCacheFirst(result) == result.hasBooks /\ Len(result.books) > 0 /\ setItems = {}

\* if (result.books && result.books.length > 0)
shouldCache(result) == result.hasBooks /\ Len(result.books) > 0

\* What the curation service answers: the request is rejected, or a response
\* whose text is empty, cut short, or a JSON document.
ServiceResponses ==
    { [ok |-> FALSE, text |-> <<>>],
      [ok |-> TRUE, text |-> <<>>],
      [ok |-> TRUE, text |-> <<"{", "books", ":", "[", "1">>],
      [ok |-> TRUE, text |-> <<"null">>],
      [ok |-> TRUE, text |-> <<"{", "}">>],
      [ok |-> TRUE, text |-> <<"{", "books", ":", "[", "]", "}">>],
      [ok |-> TRUE, text |-> <<"{", "books", ":", "[", "1", "]", "}">>],
      [ok |-> TRUE, text |-> <<"{", "books", ":", "[", "2", ",", "3", "]", "}">>] }

NotBuilt == <<"(not built)">>

NoResponse == [ok |-> FALSE, text |-> <<"(no response)">>]

\* An invocation: its position, its arguments, the candidate pool it built,
\* the number of curation requests it issued, the response it received, and
\* what it returned or threw.
IdleCall ==
    [pc |-> "idle", req |-> Request(<<>>, <<>>, <<>>, 0, Undefined), pool |-> NotBuilt,
     requests |-> 0, resp |-> NoResponse, ret |-> JsonNull, error |-> ""]

Returns(call, v) == [call EXCEPT !.pc = "returned", !.ret = v]
Throws(call, e) == [call EXCEPT !.pc = "threw", !.error = e]

\* A selection without the query-mode short-circuit.
shortCircuitsNever(query, pool) == FALSE

\* if (query && topCandidates.length === 0) return { books: [] }
shortCircuits(query, pool) == Truthy(query) /\ Len(pool) = 0

\* A catch block that swallows the failure and returns an empty result.
onServiceErrorSwallowed(call, e) ==
    [call EXCEPT !.pc = "returned", !.ret = [t |-> "object", hasBooks |-> TRUE, books |-> <<>>]]

\* } catch (error) { console.error("Gemini Error:", error); throw error; }
onServiceError(call, e) == Throws(call, e)

\* A lookup that ignores what the cache holds.
cacheConsultedNever(cachedData) == FALSE

\* if (cachedData): the stored text counts as a possible hit
cacheConsulted(cachedData) == cachedData # NoItem /\ cachedData # <<>>

\* generateBookRecommendations from its entry to its first return, throw or
\* await: cache lookup, credential check, candidate selection, the
\* query-mode short-circuit, and the call of ai.models.generateContent.
generateBookRecommendations(i, req, jitter) ==
    LET key        == RecKeyOf(req)
        cachedData == localStorage[key]
        isHit      == cacheConsulted(cachedData) /\ parse(cachedData).ok
        evicts     == cacheConsulted(cachedData) /\ ~parse(cachedData).ok
        call       == [calls[i] EXCEPT !.req = req]
        top        == TopCandidatesOf(req, jitter)
        pool       == [n \in 1..Len(top) |-> top[n].id]
    IN
    /\ localStorage' = IF evicts THEN [localStorage EXCEPT ![key] = NoItem]
                       ELSE localStorage
    /\ calls' = [calls EXCEPT ![i] =
            IF isHit THEN Returns(call, parse(cachedData).value)
            ELSE IF ~apiKey THEN Throws(call, "API Key is missing.")
            ELSE IF shortCircuits(req.query, pool)
                 THEN Returns([call EXCEPT !.pool = pool], JsonBooks(<<>>))
            ELSE [call EXCEPT !.pc = "awaiting", !.pool = pool,
                              !.requests = @ + 1]]

\* generateBookRecommendations is called.
Start(i) ==
    /\ calls[i].pc = "idle"
    /\ \E req \in Requests : \E jitter \in JitterChoices :
        generateBookRecommendations(i, req, jitter)
    /\ UNCHANGED <<apiKey, setItems>>
    /\ UNCHANGED <<coverVars, verifs, keyPair, uploadVars, app, pureVars>>

\* The awaited generateContent settles and the function runs to its end.
Respond(i) ==
    /\ calls[i].pc = "awaiting"
    /\ \E resp \in ServiceResponses :
        LET key    == RecKeyOf(calls[i].req)
            text   == IF resp.text # <<>> THEN resp.text
                      ELSE <<"{", "books", ":", "[", "]", "}">>
            parsed == parse(text)
            result == parsed.value
            call   == [calls[i] EXCEPT !.resp = resp]
        IN
        IF ~resp.ok THEN
            /\ calls' = [calls EXCEPT ![i] = onServiceError(call, "request failed")]
            /\ UNCHANGED <<localStorage, setItems>>
        ELSE IF ~parsed.ok THEN
            /\ calls' = [calls EXCEPT ![i] = onServiceError(call, "SyntaxError")]
            /\ UNCHANGED <<localStorage, setItems>>
        ELSE IF result.t = "null" THEN
            /\ calls' = [calls EXCEPT ![i] = onServiceError(call, "TypeError")]
            /\ UNCHANGED <<localStorage, setItems>>
        ELSE
            /\ calls' = [calls EXCEPT ![i] = Returns(call, result)]
            /\ IF shouldCache(result)
               THEN /\ localStorage' = [localStorage EXCEPT ![key] = stringify(result)]
                    /\ setItems' = setItems \cup {<<key, stringify(result)>>}
               ELSE UNCHANGED <<localStorage, setItems>>
    /\ UNCHANGED apiKey
    /\ UNCHANGED <<coverVars, verifs, keyPair, uploadVars, app, pureVars>>

(***************************************************************************)
(* verifyBookCoverMatch.                                                   *)
(***************************************************************************)
Verdict(isMatch, reason) == [t |-> "verdict", isMatch |-> isMatch, reason |-> reason]
NoVerdict == [t |-> "null", isMatch |-> FALSE, reason |-> ""]

\* JSON.parse of a verification response text
parseVerdict(text) ==
    IF text = <<"null">> THEN [ok |-> TRUE, value |-> NoVerdict]
    ELSE IF /\ Len(text) = 9
            /\ SubSeq(text, 1, 3) = <<"{", "isMatch", ":">>
            /\ text[4] \in {"true", "false"}
            /\ SubSeq(text, 5, 7) = <<",", "reason", ":">>
            /\ text[9] = "}"
         THEN [ok |-> TRUE, value |-> Verdict(text[4] = "true", text[8])]
    ELSE [ok |-> FALSE, value |-> NoVerdict]

\* What the verification request answers: it is rejected, or a response whose
\* text is empty, cut short, or a JSON document.
VerifyResponses ==
    { [ok |-> FALSE, text |-> <<>>],
      [ok |-> TRUE, text |-> <<>>],
      [ok |-> TRUE, text |-> <<"{", "isMatch", ":">>],
      [ok |-> TRUE, text |-> <<"null">>],
      [ok |-> TRUE, text |-> <<"{", "isMatch", ":", "true", ",", "reason", ":", "Cover matches", "}">>],
      [ok |-> TRUE, text |-> <<"{", "isMatch", ":", "false", ",", "reason", ":", "Wrong book", "}">>] }

\* base64Image.split(',')[1] || base64Image
base64Data(image) ==
    LET i == IndexOf(image, <<",">>)
        rest == SubSeq(image, i + 1, Len(image))
        j == IndexOf(rest, <<",">>)
        second == IF j = 0 THEN rest ELSE SubSeq(rest, 1, j - 1)
    IN  IF i = 0 \/ second = <<>> THEN image ELSE second

\* if (!process.env.API_KEY) throw new Error("API Key is missing.")
credentialMissing == ~apiKey

\* A catch block that accepts the image when the service fails.
onVerifyErrorOpen == [t |-> "verdict", isMatch |-> TRUE, reason |-> "Verification service failed."]

\* } catch (error) { return { isMatch: false, reason: "Verification service failed." }; }
onVerifyError == Verdict(FALSE, "Verification service failed.")

IdleVerif ==
    [pc |-> "idle", data |-> <<>>, requests |-> 0, resp |-> NoResponse,
     ret |-> NoVerdict, error |-> ""]

\* reader.result of a read that failed: null
NoImage == <<"null">>

\* verifyBookCoverMatch from its entry to its throw or its await, as the new
\* value of the invocation: the credential check, base64Image.split (a
\* TypeError on null, outside the try), and the request.
verifyBookCoverMatch(verif, image) ==
    IF credentialMissing
    THEN [verif EXCEPT !.pc = "threw", !.error = "API Key is missing."]
    ELSE IF image = NoImage
    THEN [verif EXCEPT !.pc = "threw", !.error = "TypeError"]
    ELSE [verif EXCEPT !.pc = "awaiting", !.data = base64Data(image),
                       !.requests = @ + 1]

\* verifyBookCoverMatch from its entry to its throw or its await.
VerifyStart(v) ==
    /\ verifs[v].pc = "idle"
    /\ \E image \in { <<"data:image/png;base64", ",", "AAAA">>, <<"BBBB">> } :
        verifs' = [verifs EXCEPT ![v] = verifyBookCoverMatch(@, image)]
    /\ UNCHANGED <<apiKey, coverVars, recVars, keyPair, uploadVars, app, pureVars>>

\* verifyBookCoverMatch after its await, as the new value of the invocation:
\* the response text is parsed and returned, a rejected request or a text
\* that does not parse goes to the catch block.
verifySettles(verif, resp) ==
    LET text == IF resp.text # <<>> THEN resp.text
                ELSE <<"{", "isMatch", ":", "false", ",", "reason", ":", "No response", "}">>
        parsed == parseVerdict(text)
    IN  [verif EXCEPT !.pc = "returned", !.resp = resp,
                      !.ret = IF resp.ok /\ parsed.ok THEN parsed.value
                              ELSE onVerifyError,
                      !.error = IF ~resp.ok THEN "request failed"
                                ELSE IF ~parsed.ok THEN "SyntaxError" ELSE ""]

\* The awaited generateContent settles and the function returns.
VerifyRespond(v) ==
    /\ verifs[v].pc = "awaiting"
    /\ \E resp \in VerifyResponses :
        verifs' = [verifs EXCEPT ![v] = verifySettles(@, resp)]
    /\ UNCHANGED <<apiKey, coverVars, recVars, keyPair, uploadVars, app, pureVars>>

(***************************************************************************)
(* The cache key as a function of the request: two requests and their keys.*)
(***************************************************************************)

\* The requests whose keys are compared: grades, months, themes, limits and
\* queries with and without the separators of the key.
KeyRequests ==
    { Request(g, m, t, n, q) :
        g \in { <<"a">>, <<"a", "_", "b">>, <<"3", "r", "d", " ", "G", "r", "a", "d", "e">> },
        m \in { <<"c">>, <<"M", "a", "y">> },
        t \in { <<"b">>, <<"b", "_", "c">> },
        n \in { 1, 10, 11 },
        q \in { Undefined, <<>>, <<"n", "o", "n", "e">>, <<"c", "a", "t">>, <<"x", "_", "s", "e", "a", "r", "c", "h", "_", "y">> } }

NoPair == [set |-> FALSE, a |-> IdleCall.req, b |-> IdleCall.req, ka |-> <<>>, kb |-> <<>>]

\* Two requests are made and the key of each is computed.
ComputeKeys ==
    /\ ~keyPair.set
    /\ \E a \in KeyRequests : \E b \in KeyRequests :
        keyPair' = [set |-> TRUE, a |-> a, b |-> b,
                    ka |-> recCacheKey(a), kb |-> recCacheKey(b)]
    /\ UNCHANGED <<coverVars, recVars, apiKey, verifs, uploadVars, app, pureVars>>

(***************************************************************************)
(* Manual cover upload: BookCard.handleFileChange and App.handleUpdateCover.*)
(***************************************************************************)
\* The books whose cards take an upload, by book.id.
UploadBookIds == {"1", "2"}

\* e.target.files?.[0] when no file was chosen
NoFile == <<"(no file)">>

\* An override accepted in an earlier session (inspired_cover_overrides_v1).
SavedOverride == <<"data:image/png;base64", ",", "SAVED">>

NoAlert == ""

\* An upload: the handler's position, the card's book, whether the card was
\* given onUpdateCover, the chosen file, reader.result, the card's coverUrl
\* and isVerifying, the alert shown and the number of onUpdateCover calls.
IdleUpload ==
    [pc |-> "idle", bookId |-> "1", hasCallback |-> FALSE, file |-> NoFile,
     base64String |-> NoImage, coverUrl |-> NoUrl, isVerifying |-> FALSE,
     alert |-> NoAlert, updates |-> 0]

\* A handler that accepts whatever verdict comes back.
acceptsAny(result) == TRUE

\* if (result.isMatch)
accepts(result) == result.isMatch

\* setCoverOverrides(prev => ({ ...prev, [bookId]: newUrl }))
handleUpdateCover(overrides, bookId, newUrl) == [overrides EXCEPT ![bookId] = newUrl]

\* catch (err) { alert(...) } finally { setIsVerifying(false) }
uploadFailed(upload) ==
    [upload EXCEPT !.pc = "done", !.isVerifying = FALSE,
        !.alert = "Verification service encountered an error. Please check your API key."]

\* handleFileChange: with a file and a callback, setIsVerifying(true) and
\* reader.readAsDataURL(file); otherwise nothing.
HandleFileChange(u) ==
    /\ uploads[u].pc = "idle"
    /\ \E bookId \in UploadBookIds : \E file \in { <<"data:image/png;base64", ",", "AAAA">>,
                                                      <<"data:image/png;base64", ",", "CCCC">>, NoFile } :
       \E hasCallback \in BOOLEAN : \E shown \in {NoUrl, coverOverrides[bookId]} :
        uploads' = [uploads EXCEPT ![u] =
            IF file # NoFile /\ hasCallback
            THEN [@ EXCEPT !.pc = "reading", !.bookId = bookId, !.file = file,
                           !.hasCallback = hasCallback, !.coverUrl = shown,
                           !.isVerifying = TRUE]
            ELSE [@ EXCEPT !.pc = "done"]]
    /\ UNCHANGED <<coverOverrides, verifs, apiKey>>
    /\ UNCHANGED <<coverVars, recVars, keyPair, app, pureVars>>

\* reader.onloadend up to its await: reader.result is the data URL, or null
\* when the read failed; verifyBookCoverMatch is called with it.  When the
\* call throws, the rejection is caught in the same turn of the event loop.
ReaderLoadEnd(u) ==
    /\ uploads[u].pc = "reading"
    /\ verifs[u].pc = "idle"
    /\ \E base64String \in {uploads[u].file, NoImage} :
        LET verif == verifyBookCoverMatch(verifs[u], base64String)
            upload == [uploads[u] EXCEPT !.base64String = base64String]
        IN  /\ verifs' = [verifs EXCEPT ![u] = verif]
            /\ uploads' = [uploads EXCEPT ![u] =
                    IF verif.pc = "threw" THEN uploadFailed(upload)
                    ELSE [upload EXCEPT !.pc = "verifying"]]
    /\ UNCHANGED <<coverOverrides, apiKey>>
    /\ UNCHANGED <<coverVars, recVars, keyPair, app, pureVars>>

\* The awaited verifyBookCoverMatch settles and reader.onloadend runs to its
\* end: on a match onUpdateCover and setCoverUrl, otherwise an alert;
\* reading isMatch of a null result is a TypeError that the catch handles.
VerificationSettles(u) ==
    /\ uploads[u].pc = "verifying"
    /\ verifs[u].pc = "awaiting"
    /\ \E resp \in VerifyResponses :
        LET verif  == verifySettles(verifs[u], resp)
            result == verif.ret
            upload == uploads[u]
        IN  /\ verifs' = [verifs EXCEPT ![u] = verif]
            /\ IF result.t = "null"
               THEN /\ uploads' = [uploads EXCEPT ![u] = uploadFailed(upload)]
                    /\ UNCHANGED coverOverrides
               ELSE IF accepts(result)
               THEN /\ coverOverrides' = handleUpdateCover(coverOverrides, upload.bookId,
                                                           upload.base64String)
                    /\ uploads' = [uploads EXCEPT ![u] =
                            [upload EXCEPT !.pc = "done", !.isVerifying = FALSE,
                                           !.coverUrl = upload.base64String,
                                           !.updates = @ + 1]]
               ELSE /\ uploads' = [uploads EXCEPT ![u] =
                            [upload EXCEPT !.pc = "done", !.isVerifying = FALSE,
                                           !.alert = "Verification Failed"]]
                    /\ UNCHANGED coverOverrides
    /\ UNCHANGED apiKey
    /\ UNCHANGED <<coverVars, recVars, keyPair, app, pureVars>>

(***************************************************************************)
(* The category split of generateBookRecommendations.                      *)
(***************************************************************************)
\* The largest requested count of the model.
MaxLimit == 60

\* Math.floor(limit / 2) of a non-negative integer
FloorHalf(n) == n \div 2

\* A split that rounds the half up.
mustReadCountCeil(limit) == Max(5, (limit + 1) \div 2)

\* const mustReadCount = Math.max(5, Math.floor(limit / 2))
mustReadCount(limit) == Max(5, FloorHalf(limit))

\* A split that gives Recommended the rounded-down half as well.
recommendedCountHalf(limit) == FloorHalf(limit)

\* const recommendedCount = limit - mustReadCount
recommendedCount(limit) == limit - mustReadCount(limit)

NoSplit == [limit |-> 0, done |-> FALSE, mustRead |-> 0, recommended |-> 0]

\* The two counts are computed for the requested count.
ComputeSplit ==
    /\ ~split.done
    /\ split' = [split EXCEPT !.done = TRUE,
                              !.mustRead = mustReadCount(split.limit),
                              !.recommended = recommendedCount(split.limit)]
    /\ UNCHANGED <<gradeRange, scoring, selection, catalogLoad>>
    /\ UNCHANGED <<coverVars, recVars, apiKey, verifs, keyPair, uploadVars, app>>
(***************************************************************************)
(* getBlRange of a grade label.                                            *)
(***************************************************************************)

\* The grade labels: what can stand before, at and after the ordinal.
GradeLabels ==
    LET LabelPrefixes == { <<>>, <<"G", " ">>, <<"6", "t", "h", " ">> }
        LabelOrdinals ==
            { <<"1", "s", "t">>, <<"2", "n", "d">>, <<"3", "r", "d">>, <<"4", "t", "h">>,
            <<"5", "t", "h">>, <<"6", "t", "h">>, <<"1", "S", "T">>, <<"3", "R", "d">>,
            <<"7", "t", "h">>, <<"K">>, <<>>, <<"1", " ", "s", "t">> }
        LabelSuffixes == { <<>>, <<" ", "G", "r", "a", "d", "e">>, <<" ", "2", "N", "D">> }
    IN  { p \o o \o q : p \in LabelPrefixes, o \in LabelOrdinals, q \in LabelSuffixes }

NoRange == [grade |-> <<>>, done |-> FALSE, range |-> [min |-> 0, max |-> 0]]

\* getBlRange is applied to the grade label.
ResolveRange ==
    /\ ~gradeRange.done
    /\ gradeRange' = [gradeRange EXCEPT !.done = TRUE,
                                        !.range = getBlRange(gradeRange.grade)]
    /\ UNCHANGED <<split, scoring, selection, catalogLoad>>
    /\ UNCHANGED <<coverVars, recVars, apiKey, verifs, keyPair, uploadVars, app>>

(***************************************************************************)
(* getRelevancyScore of a book, a month, a theme and a query.              *)
(***************************************************************************)




NoScoring ==
    [book |-> Catalog[1], month |-> <<>>, theme |-> <<>>, query |-> Undefined,
     done |-> FALSE, score |-> 0]

\* getRelevancyScore is applied to the book, month, theme and query.
Score ==
    /\ ~scoring.done
    /\ scoring' = [scoring EXCEPT !.done = TRUE,
                        !.score = getRelevancyScore(scoring.book, scoring.month,
                                                    scoring.theme, scoring.query)]
    /\ UNCHANGED <<split, gradeRange, selection, catalogLoad>>
    /\ UNCHANGED <<coverVars, recVars, apiKey, verifs, keyPair, uploadVars, app>>
(***************************************************************************)
(* The candidate selection of generateBookRecommendations over a catalog.  *)
(***************************************************************************)
\* The number of entries of the larger catalog.
CatalogSize == 54



\* A larger ALL_BOOKS_DATABASE: more entries than any candidate pool holds,
\* with bl from 0.5 to 6.4.
LargeCatalog ==
    LET IdNames ==
            << "1", "2", "3", "4", "5", "6", "7", "8", "9", "10", "11", "12", "13", "14", "15",
               "16", "17", "18", "19", "20", "21", "22", "23", "24", "25", "26", "27", "28",
               "29", "30", "31", "32", "33", "34", "35", "36", "37", "38", "39", "40", "41",
               "42", "43", "44", "45", "46", "47", "48", "49", "50", "51", "52", "53", "54",
               "55", "56", "57", "58", "59", "60" >>
        ShelfTitles ==
            << <<"C", "a", "t", " ", "N", "a", "p">>, <<"I", "c", "e">>,
               <<"O", "l", "d", " ", "W", "a", "r">>, <<"M", "o", "o", "n">> >>
        ShelfThemes ==
            << <<"A", "n", "i", "m", "a", "l", "s">>, <<"H", "o", "l", "i", "d", "a", "y", "s">>,
               <<"H", "i", "s", "t", "o", "r", "y">> >>
        ShelfSummaries ==
            << <<"a", " ", "d", "o", "g">>, <<"s", "n", "o", "w">>, <<"t", "h", "e", " ", "p", "a", "s", "t">>,
               <<"s", "p", "a", "c", "e">>, <<"f", "u", "n">> >>
    IN
    [ i \in 1..CatalogSize |->
        [id |-> IdNames[i], code |-> "M", title |-> ShelfTitles[(i % 4) + 1], series |-> <<>>,
         author |-> <<"B", "o">>, lexile |-> "500L", bl |-> ((i * 7) % 60) + 5,
         genre |-> <<"F", "i", "c", "t", "i", "o", "n">>, theme |-> ShelfThemes[(i % 3) + 1],
         summary |-> ShelfSummaries[(i % 5) + 1]] ]

Catalogs == << Catalog, LargeCatalog >>



NoSelection ==
    [catalog |-> 1, req |-> Request(<<>>, <<>>, <<>>, 0, Undefined), jitter |-> [a |-> 0, b |-> 0],
     done |-> FALSE, candidates |-> <<>>, scored |-> <<>>, pool |-> <<>>]

\* The selection of generateBookRecommendations: grade filter, scoring with
\* jitter, threshold, sort and truncation.
Select ==
    /\ ~selection.done
    /\ LET catalog == Catalogs[selection.catalog]
           \* the Math.random() drawn for entry i, in tenths: (a * i + b) % 10
           jitter  == [i \in 1..Len(catalog) |->
                        (selection.jitter.a * i + selection.jitter.b) % 10]
           scored  == scoreCandidates(catalog, selection.req, jitter)
       IN  selection' = [selection EXCEPT !.done = TRUE,
                !.candidates = selectCandidates(catalog, selection.req),
                !.scored = scored,
                !.pool = sliceTop(sortByScore(scored), selection.req.limit)]
    /\ UNCHANGED <<split, gradeRange, scoring, catalogLoad>>
    /\ UNCHANGED <<coverVars, recVars, apiKey, verifs, keyPair, uploadVars, app>>
(***************************************************************************)
(* parseBookData of a tab-separated text.                                  *)
(***************************************************************************)
\* s.split(sep) for a one-character separator: the pieces between the
\* separators, empty pieces included
RECURSIVE splitBy(_, _)
splitBy(s, sep) ==
    IF \A i \in 1..Len(s) : s[i] # sep THEN <<s>>
    ELSE LET i == CHOOSE k \in 1..Len(s) :
                    s[k] = sep /\ \A j \in 1..(k - 1) : s[j] # sep
         IN  <<SubSeq(s, 1, i - 1)>> \o splitBy(SubSeq(s, i + 1, Len(s)), sep)

\* the separators joined back: pieces[1] sep pieces[2] sep ...
RECURSIVE join(_, _)
join(pieces, sep) ==
    IF Len(pieces) = 0 THEN <<>>
    ELSE IF Len(pieces) = 1 THEN pieces[1]
    ELSE pieces[1] \o <<sep>> \o join(Tail(pieces), sep)

\* the number of digits s begins with
LeadingDigits(s) ==
    LET DigitChars == { Digits[d] : d \in 1..Len(Digits) }
    IN  CHOOSE k \in 0..Len(s) :
            /\ \A j \in 1..k : s[j] \in DigitChars
            /\ k = Len(s) \/ s[k + 1] \notin DigitChars

\* the value of a string of digits
RECURSIVE IntValue(_)
IntValue(ds) ==
    IF Len(ds) = 0 THEN 0
    ELSE 10 * IntValue(SubSeq(ds, 1, Len(ds) - 1))
         + (CHOOSE d \in 0..9 : Digits[d + 1] = ds[Len(ds)])


\* parseFloat: leading white space is skipped, then a sign, then "Infinity"
\* or the longest decimal numeral the text begins with; what follows is
\* ignored; NaN when there is no numeral.  Values are kept in tenths (the
\* numerals of the model have at most one digit after the point and no
\* exponent).
parseFloat(s) ==
    LET start  == IF \A i \in 1..Len(s) : IsSpace(s[i]) THEN Len(s) + 1
                  ELSE CHOOSE i \in 1..Len(s) :
                          ~IsSpace(s[i]) /\ \A j \in 1..(i - 1) : IsSpace(s[j])
        t      == SubSeq(s, start, Len(s))
        signed == Len(t) > 0 /\ t[1] \in {"+", "-"}
        u      == IF signed THEN Tail(t) ELSE t
        intLen == LeadingDigits(u)
        rest   == SubSeq(u, intLen + 1, Len(u))
        hasDot == Len(rest) > 0 /\ rest[1] = "."
        frac   == IF hasDot THEN Tail(rest) ELSE <<>>
        fracLen == LeadingDigits(frac)
        value  == 10 * IntValue(SubSeq(u, 1, intLen))
                  + (IF fracLen > 0 THEN IntValue(<<frac[1]>>) ELSE 0)
    IN  IF StartsWith(u, <<"I", "n", "f", "i", "n", "i", "t", "y">>)
            THEN [kind |-> "infinity", tenths |-> 0]
        ELSE IF intLen = 0 /\ fracLen = 0 THEN [kind |-> "nan", tenths |-> 0]
        ELSE [kind |-> "number",
              tenths |-> IF signed /\ t[1] = "-" THEN 0 - value ELSE value]

\* isNaN(bl)
isNaN(bl) == bl.kind = "nan"

\* cols[k] of the code (the index counted from 0): undefined past the end
Col(cols, k) == IF k + 1 <= Len(cols) THEN cols[k + 1] ELSE Undefined

\* the RawBook pushed for a line's columns
RawBook(cols) ==
    [id |-> Col(cols, 0), code |-> Col(cols, 2), title |-> Col(cols, 3),
     series |-> Col(cols, 4), author |-> Col(cols, 5), lexile |-> Col(cols, 6),
     bl |-> parseFloat(Col(cols, 7)), genre |-> Col(cols, 8), theme |-> Col(cols, 10),
     summary |-> IF Truthy(Col(cols, 12)) THEN Col(cols, 12) ELSE <<>>]

\* the loop of parseBookData over the lines
RECURSIVE pushBooks(_)
pushBooks(lines) ==
    IF Len(lines) = 0 THEN <<>>
    ELSE LET cols == splitBy(Head(lines), "\t")
         IN  IF Len(cols) < 8 THEN pushBooks(Tail(lines))
             ELSE IF isNaN(parseFloat(cols[8])) THEN pushBooks(Tail(lines))
             ELSE <<RawBook(cols)>> \o pushBooks(Tail(lines))

parseBookData(tsvData) == pushBooks(splitBy(trim(tsvData), "\n"))

\* The largest number of lines of a dataset of the model.
MaxLines == 2


\* The datasets: up to MaxLines lines, each line its columns joined by tabs,
\* the lines joined by line feeds, with or without a line feed at the end.
DatasetTexts ==
    LET DatasetLines ==
            { << <<"1">>, <<"x">>, <<"M", "1">>, <<"A", "b">>, <<>>, <<"B", "o">>, <<"2", "L">>,
                 <<"3", ".", "1">>, <<"F", "i">>, <<>>, <<"A", "n">>, <<>>, <<"a", " ", "d">> >>,
              << <<"2">>, <<"x">>, <<"M", "2">>, <<"C", "d">>, <<>>, <<"A", "l">>, <<"5", "L">> >>,
              << <<"3">>, <<"x">>, <<"M", "3">>, <<"E", "f">>, <<>>, <<"D", "i">>, <<"7", "L">>,
                 <<"n", "/", "a">> >>,
              << <<"4">>, <<"x">>, <<"M", "4">>, <<"G", "h">>, <<>>, <<"E", "v">>, <<"8", "L">>,
                 <<"I", "n", "f", "i", "n", "i", "t", "y">> >>,
              << <<>>, <<>>, <<"M", "5">>, <<"I", "j">>, <<>>, <<"C", "y">>, <<"9", "L">>,
                 <<"6", ".", "2">> >>,
              << <<"6">>, <<"x">>, <<"M", "6">>, <<"K", "l">>, <<>>, <<"J", "o">>, <<"4", "L">>,
                 <<"1", "2">> >>,
              << <<>> >> }
        bodies == UNION { [1..n -> DatasetLines] : n \in 1..MaxLines }
        textOf(b) == join([k \in 1..Len(b) |-> join(b[k], "\t")], "\n")
    IN  { textOf(b) \o e : b \in bodies, e \in { <<>>, <<"\n">> } }

NoLoad == [text |-> <<>>, done |-> FALSE, books |-> <<>>, again |-> <<>>]

\* The dataset is loaded, and loaded once more.
Load ==
    /\ ~catalogLoad.done
    /\ catalogLoad' = [catalogLoad EXCEPT !.done = TRUE,
                            !.books = parseBookData(catalogLoad.text),
                            !.again = parseBookData(catalogLoad.text)]
    /\ UNCHANGED <<split, gradeRange, scoring, selection>>
    /\ UNCHANGED <<coverVars, recVars, apiKey, verifs, keyPair, uploadVars, app>>
(***************************************************************************)
(* The monthly view: App.handleFetchBooks and the effect that calls it.    *)
(***************************************************************************)
\* The App state of the monthly view: the books displayed, the loading flag,
\* the error banner ("" = null), the fetches in the order they were issued
\* and the fetches whose outcome has been handled.
IdleApp == [books |-> <<>>, loading |-> FALSE, error |-> "", order |-> <<>>, applied |-> {}]

\* A continuation that drops the outcome of a superseded fetch.
applyOutcomeLatest(state, i, call) ==
    IF i # state.order[Len(state.order)]
    THEN [state EXCEPT !.applied = @ \cup {i}]
    ELSE [(IF call.pc = "threw"
           THEN [state EXCEPT !.error = "Failed to generate recommendations. Please check your API key."]
           ELSE IF call.ret.t = "object" /\ call.ret.hasBooks
                THEN [state EXCEPT !.books = call.ret.books]
           ELSE [state EXCEPT !.books = <<>>,
                              !.error = "No books found matching your criteria."])
          EXCEPT !.loading = FALSE, !.applied = @ \cup {i}]

\* A continuation that empties the list when the fetch fails.
applyOutcomeClearing(state, i, call) ==
    [(IF call.pc = "threw"
      THEN [state EXCEPT !.books = <<>>,
                         !.error = "Failed to generate recommendations. Please check your API key."]
      ELSE IF call.ret.t = "object" /\ call.ret.hasBooks
           THEN [state EXCEPT !.books = call.ret.books]
      ELSE [state EXCEPT !.books = <<>>,
                         !.error = "No books found matching your criteria."])
     EXCEPT !.loading = FALSE, !.applied = @ \cup {i}]

\* handleFetchBooks after its await, for fetch i whose call of
\* generateBookRecommendations has returned or thrown:
\*   if (data && data.books) setBooks(data.books)
\*   else { setBooks([]); setError("No books found ...") }
\*   catch: setError("Failed to generate ...");  finally: setLoading(false)
applyOutcome(state, i, call) ==
    [(IF call.pc = "threw"
      THEN [state EXCEPT !.error = "Failed to generate recommendations. Please check your API key."]
      ELSE IF call.ret.t = "object" /\ call.ret.hasBooks
           THEN [state EXCEPT !.books = call.ret.books]
      ELSE [state EXCEPT !.books = <<>>,
                         !.error = "No books found matching your criteria."])
     EXCEPT !.loading = FALSE, !.applied = @ \cup {i}]

\* The effect of the monthly view runs (a filter, the limit or the active
\* search has changed) and calls handleFetchBooks, which runs up to its
\* await: setLoading(true), setError(null), and the synchronous part of
\* generateBookRecommendations with the current selection.
HandleFetchBooks(i) ==
    /\ calls[i].pc = "idle"
    /\ \E req \in Requests : \E jitter \in JitterChoices :
        generateBookRecommendations(i, req, jitter)
    /\ app' = [app EXCEPT !.loading = TRUE, !.error = "", !.order = Append(@, i)]
    /\ UNCHANGED <<apiKey, setItems>>
    /\ UNCHANGED <<coverVars, verifs, keyPair, uploadVars, pureVars>>

\* handleFetchBooks continues after its await.
FetchSettles(i) ==
    /\ \E n \in 1..Len(app.order) : app.order[n] = i
    /\ i \notin app.applied
    /\ calls[i].pc \in {"returned", "threw"}
    /\ app' = applyOutcome(app, i, calls[i])
    /\ UNCHANGED <<recVars, apiKey>>
    /\ UNCHANGED <<coverVars, verifs, keyPair, uploadVars, pureVars>>
(***************************************************************************)
(* Specifications.                                                         *)
(***************************************************************************)
\* The state after the modules are loaded and before any component mounts
\* or any service function is called.  The recommendation cache lives in
\* localStorage and survives reloads: one slot may hold what an earlier
\* session (or anything else on the origin) left there.
UploadIdle ==
    /\ uploads = [u \in 1..NumVerifs |-> IdleUpload]
    /\ coverOverrides = [b \in UploadBookIds |-> NoUrl]


\* The inputs the pure functions are applied to.
PureInit(limits, labels, scorings, selections, texts) ==
    /\ split \in limits
    /\ gradeRange \in labels
    /\ scoring \in scorings
    /\ selection \in selections
    /\ catalogLoad \in texts

PureIdle == PureInit({NoSplit}, {NoRange}, {NoScoring}, {NoSelection}, {NoLoad})

\* No verification is running, no key pair is drawn, and the monthly view
\* has fetched nothing.
ServicesIdle ==
    /\ verifs = [v \in 1..NumVerifs |-> IdleVerif]
    /\ keyPair = NoPair
    /\ app = IdleApp

CoverIdle ==
    /\ coverCache = [k \in CoverKeys |-> NoUrl]
    /\ promiseCache = [k \in CoverKeys |-> 0]
    /\ races = <<>>
    /\ cards = [c \in 1..NumCards |-> IdleCard]
    /\ fetchCalls = [k \in CoverKeys |-> [gb |-> 0, ol |-> 0]]

RecIdle ==
    /\ localStorage = [x \in RecKeys |-> NoItem]
    /\ calls = [i \in 1..NumCalls |-> IdleCall]
    /\ setItems = {}



InitCover == CoverIdle /\ RecIdle /\ apiKey = TRUE /\ ServicesIdle
    /\ UploadIdle /\ PureIdle

\* One cache slot holds what was there when the page loaded: nothing, an
\* entry written in an earlier session, or a value that is not what the
\* function wrote (an empty string, a cut-short document).
InitRec == CoverIdle /\ apiKey \in BOOLEAN /\ ServicesIdle /\ UploadIdle /\ PureIdle
    /\ \E k \in RecKeys :
       \E text \in { NoItem, <<>>, <<"{", "books", ":", "[", "1">>,
                     <<"{", "books", ":", "[", "3", "]", "}">> } :
        localStorage = [x \in RecKeys |-> IF x = k THEN text ELSE NoItem]
    /\ calls = [i \in 1..NumCalls |-> IdleCall]
    /\ setItems = {}

InitVerify == CoverIdle /\ RecIdle /\ apiKey \in BOOLEAN /\ ServicesIdle
    /\ UploadIdle /\ PureIdle

InitKey == CoverIdle /\ RecIdle /\ apiKey = TRUE /\ ServicesIdle
    /\ UploadIdle /\ PureIdle

\* Overrides saved by an earlier session are loaded into the App state.
InitUpload == CoverIdle /\ RecIdle /\ apiKey \in BOOLEAN /\ ServicesIdle /\ PureIdle
    /\ uploads = [u \in 1..NumVerifs |-> IdleUpload]
    /\ coverOverrides \in [UploadBookIds -> {NoUrl, SavedOverride}]

InitSplit == CoverIdle /\ RecIdle /\ apiKey = TRUE /\ ServicesIdle /\ UploadIdle
    /\ PureInit({ [NoSplit EXCEPT !.limit = n] : n \in 0..MaxLimit },
                {NoRange}, {NoScoring}, {NoSelection}, {NoLoad})

InitRange == CoverIdle /\ RecIdle /\ apiKey = TRUE /\ ServicesIdle /\ UploadIdle
    /\ PureInit({NoSplit}, { [NoRange EXCEPT !.grade = g] : g \in GradeLabels },
                {NoScoring}, {NoSelection}, {NoLoad})

InitScore == CoverIdle /\ RecIdle /\ apiKey = TRUE /\ ServicesIdle /\ UploadIdle
    /\ LET \* the catalog entries, a book whose text has keywords of three
           \* buckets and of a season, and a book with empty theme, summary
           \* and genre
           ScoreBooks ==
               { Catalog[i] : i \in 1..Len(Catalog) }
               \cup { [id |-> "4", code |-> "M0004", title |-> <<"Z", "o", "o", " ", "M", "a", "g", "i", "c">>,
                       series |-> <<>>, author |-> <<"C", "y">>, lexile |-> "300L", bl |-> 25,
                       genre |-> <<"H", "u", "m", "o", "r">>, theme |-> <<"F", "a", "n", "t", "a", "s", "y">>,
                       summary |-> <<"a", " ", "w", "i", "z", "a", "r", "d", " ", "i", "n", " ", "w", "i", "n", "t", "e", "r">>],
                      [id |-> "5", code |-> "M0005", title |-> <<"H", "e", "a", "r", "t", "s">>,
                       series |-> <<>>, author |-> <<"E", "v", "e">>, lexile |-> "100L", bl |-> 8,
                       genre |-> <<>>, theme |-> <<>>, summary |-> <<>>] }
           ScoreMonths ==
               { <<"J", "a", "n", "u", "a", "r", "y">>, <<"F", "e", "b", "r", "u", "a", "r", "y">>,
                 <<"M", "a", "r", "c", "h">>, <<"O", "c", "t", "o", "b", "e", "r">>,
                 <<"D", "e", "c", "e", "m", "b", "e", "r">>, <<"J", "A", "N", "U", "A", "R", "Y">>,
                 <<"J", "a", "n">> }
           ScoreThemes ==
               { <<"A", "l", "l", " ", "T", "h", "e", "m", "e", "s">>,
                 <<"a", "l", "l", " ", "t", "h", "e", "m", "e", "s">>,
                 <<"A", "n", "i", "m", "a", "l", "s">>,
                 <<"H", "i", "s", "t", "o", "r", "y">>,
                 <<"H", "o", "l", "i", "d", "a", "y", "s">>,
                 <<"A", "n", "i", "m", "a", "l", "s", ",", " ", "F", "a", "n", "t", "a", "s", "y", " ", "&", " ", "H", "u", "m", "o", "r">> }
           ScoreQueries ==
               { Undefined, <<>>, <<" ", " ">>, <<"c", "a", "t">>, <<" ", "C", "a", "t", " ">>,
                 <<"z", "z", "z">>, <<"b", "o">>, <<"w", "i", "z", "a", "r", "d">> }
       IN  PureInit({NoSplit}, {NoRange},
                { [NoScoring EXCEPT !.book = b, !.month = m, !.theme = t, !.query = q] :
                    b \in ScoreBooks, m \in ScoreMonths, t \in ScoreThemes,
                    q \in ScoreQueries },
                {NoSelection}, {NoLoad})

InitSelect == CoverIdle /\ RecIdle /\ apiKey = TRUE /\ ServicesIdle /\ UploadIdle
    /\ LET SelectRequests ==
               { Request(g, <<"J", "a", "n", "u", "a", "r", "y">>, t, n, q) :
                   g \in { <<"2", "n", "d", " ", "G", "r", "a", "d", "e">>,
                           <<"3", "r", "d", " ", "G", "r", "a", "d", "e">>,
                           <<"A", "n", "y">> },
                   t \in { <<"A", "l", "l", " ", "T", "h", "e", "m", "e", "s">>, <<"A", "n", "i", "m", "a", "l", "s">> },
                   n \in { 10, 25 },
                   q \in { Undefined, <<" ", " ">>, <<"c", "a", "t">>, <<" ", "C", "a", "t", " ">>,
                           <<"z", "z", "z">> } }
           \* the pattern of the Math.random() draws
           JitterPatterns == { [a |-> 0, b |-> 4], [a |-> 3, b |-> 1], [a |-> 7, b |-> 5] }
       IN  PureInit({NoSplit}, {NoRange}, {NoScoring},
                { [NoSelection EXCEPT !.catalog = c, !.req = r, !.jitter = j] :
                    c \in 1..Len(Catalogs), r \in SelectRequests, j \in JitterPatterns },
                {NoLoad})

InitLoad == CoverIdle /\ RecIdle /\ apiKey = TRUE /\ ServicesIdle /\ UploadIdle
    /\ PureInit({NoSplit}, {NoRange}, {NoScoring}, {NoSelection},
                { [NoLoad EXCEPT !.text = t] : t \in DatasetTexts })

InitFetch == CoverIdle /\ RecIdle /\ apiKey \in BOOLEAN /\ ServicesIdle /\ UploadIdle
    /\ PureIdle

NextCover ==
    \/ \E c \in 1..NumCards : MountOverride(c)
    \/ \E c \in 1..NumCards : MountCached(c)
    \/ \E c \in 1..NumCards : MountLoad(c)
    \/ \E r \in 1..Len(races) : GoogleBooksSettles(r)
    \/ \E r \in 1..Len(races) : OpenLibrarySettles(r)
    \/ \E c \in 1..NumCards : Resume(c)
    \/ \E c \in 1..NumCards : Cleanup(c)

NextRec ==
    \/ \E i \in 1..NumCalls : Start(i)
    \/ \E i \in 1..NumCalls : Respond(i)

NextVerify ==
    \/ \E v \in 1..NumVerifs : VerifyStart(v)
    \/ \E v \in 1..NumVerifs : VerifyRespond(v)

NextKey == ComputeKeys

NextUpload ==
    \/ \E u \in 1..NumVerifs : HandleFileChange(u)
    \/ \E u \in 1..NumVerifs : ReaderLoadEnd(u)
    \/ \E u \in 1..NumVerifs : VerificationSettles(u)

NextSplit == ComputeSplit

NextRange == ResolveRange

NextScore == Score

NextSelect == Select

NextLoad == Load

NextFetch ==
    \/ \E i \in 1..NumCalls : HandleFetchBooks(i)
    \/ \E i \in 1..NumCalls : Respond(i)
    \/ \E i \in 1..NumCalls : FetchSettles(i)

\* The cover resolution engine.
SpecCover == InitCover /\ [][NextCover]_vars

\* generateBookRecommendations.
SpecRec == InitRec /\ [][NextRec]_vars

\* verifyBookCoverMatch.
SpecVerify == InitVerify /\ [][NextVerify]_vars

\* The cache key construction.
SpecKey == InitKey /\ [][NextKey]_vars

\* The manual cover upload.
SpecUpload == InitUpload /\ [][NextUpload]_vars

\* The category split.
SpecSplit == InitSplit /\ [][NextSplit]_vars

\* The grade range resolver.
SpecRange == InitRange /\ [][NextRange]_vars

\* The relevance scorer.
SpecScore == InitScore /\ [][NextScore]_vars

\* The candidate selection.
SpecSelect == InitSelect /\ [][NextSelect]_vars

\* The catalog loader.
SpecLoad == InitLoad /\ [][NextLoad]_vars

\* The monthly view.
SpecFetch == InitFetch /\ [][NextFetch]_vars

(***************************************************************************)
(* Properties of the cover resolution engine (SpecCover).                  *)
(***************************************************************************)
\* card c starts a resolution in this step (its effect reaches loadCover)
StartsResolution(c) == cards[c].pc = "idle" /\ cards'[c].pc = "awaiting"

\* card d is awaiting a race that has not resolved
InFlight(d) == cards[d].pc = "awaiting" /\ races[cards[d].awaits].result = Pending

\* C1 - Cover race dedup: a resolution started for a (title, author) while
\* another resolution for the same (title, author) is still in flight issues
\* no fetch of its own and awaits the race already running, so the
\* concurrent resolutions share one pair of lookups.
CoverRaceDedup ==
    [][ \A c \in 1..NumCards : \A d \in 1..NumCards :
          (StartsResolution(c) /\ InFlight(d) /\ cards[d].book = cards'[c].book)
          => /\ fetchCalls' = fetchCalls
             /\ cards'[c].awaits = cards[d].awaits
             /\ fetchCalls[cards[d].key] = [gb |-> 1, ol |-> 1] ]_vars

\* Two cards await the same pending race of one book, one pair of fetches.
CoverRaceDedupWitness ==
    \E c \in 1..NumCards : \E d \in 1..NumCards :
        /\ c # d
        /\ InFlight(c) /\ InFlight(d)
        /\ cards[c].book = cards[d].book
        /\ cards[c].awaits = cards[d].awaits
        /\ fetchCalls[cards[c].key] = [gb |-> 1, ol |-> 1]

\* C2 - Cover race failure composition: once both lookups of a race have
\* settled, the race has resolved to absent if both failed, and to the
\* proxied url of the successful lookup if exactly one succeeded, whichever
\* source it is and in whichever order the two settled.
CoverRaceFailureComposition ==
    \A r \in 1..Len(races) :
        LET race == races[r] IN
        /\ (race.gb = Failed /\ race.ol = Failed) => race.result = Absent
        /\ (race.gb.ok /\ race.ol = Failed) => race.result = getProxiedUrl(race.gb.url)
        /\ (race.gb = Failed /\ race.ol.ok) => race.result = getProxiedUrl(race.ol.url)

\* A race in which Google Books failed and Open Library succeeded has
\* resolved to the proxied Open Library url, and a card shows it.
CoverRaceFailureCompositionWitness ==
    \E c \in 1..NumCards :
        /\ cards[c].pc = "settled"
        /\ races[cards[c].awaits].gb = Failed
        /\ races[cards[c].awaits].ol.ok
        /\ cards[c].coverUrl = getProxiedUrl(races[cards[c].awaits].ol.url)
        /\ cards[c].coverUrl # races[cards[c].awaits].ol.url

\* C3 - Absent results are not cached: a resolution started for a key whose
\* earlier resolution has yielded absent starts a new pair of lookups.
AbsentResultsNotCached ==
    [][ \A c \in 1..NumCards : \A d \in 1..NumCards :
          ( /\ StartsResolution(c)
            /\ cards[d].pc = "settled"
            /\ cards[d].key = cards'[c].key
            /\ races[cards[d].awaits].result = Absent )
          => fetchCalls'[cards[d].key] =
                [gb |-> fetchCalls[cards[d].key].gb + 1,
                 ol |-> fetchCalls[cards[d].key].ol + 1] ]_vars

(***************************************************************************)
(* Properties of generateBookRecommendations (SpecRec).                    *)
(***************************************************************************)
\* invocation i runs its synchronous part in this step
Starts(i) == calls[i].pc = "idle" /\ calls'[i].pc # "idle"

\* invocation i receives the service's answer in this step
Responds(i) == calls[i].pc = "awaiting" /\ calls'[i].pc # "awaiting"

HasBooks(v) == v.t = "object" /\ v.hasBooks /\ Len(v.books) >= 1

\* C4 - Cache write guard: every text generateBookRecommendations has
\* written to the cache denotes a result with at least one book; results
\* without books (the query-mode empty result included) are not written.
CacheWriteGuard ==
    /\ \A w \in setItems : parse(w[2]).ok /\ HasBooks(parse(w[2]).value)
    /\ \A i \in 1..NumCalls :
        (calls[i].pc = "returned" /\ calls[i].resp = NoResponse /\ calls[i].pool = <<>>)
        => <<recCacheKey(calls[i].req), stringify(calls[i].ret)>> \notin setItems

\* One invocation has returned a non-empty result, which was written, and
\* another has returned a service result without books, which was not.
CacheWriteGuardWitness ==
    \E i \in 1..NumCalls : \E j \in 1..NumCalls :
        /\ calls[i].pc = "returned" /\ calls[i].requests = 1 /\ HasBooks(calls[i].ret)
        /\ <<recCacheKey(calls[i].req), stringify(calls[i].ret)>> \in setItems
        /\ calls[j].pc = "returned" /\ calls[j].requests = 1 /\ ~HasBooks(calls[j].ret)
        /\ localStorage[recCacheKey(calls[j].req)] = NoItem

\* C6 - Cache hit short-circuit: an invocation that finds a parseable entry
\* under its key returns the parsed entry, builds no candidate pool, issues
\* no curation request and leaves the cache as it was.
CacheHitShortCircuit ==
    [][ \A i \in 1..NumCalls :
          LET stored == localStorage[recCacheKey(calls'[i].req)] IN
          (Starts(i) /\ stored # NoItem /\ parse(stored).ok)
          => /\ calls'[i].pc = "returned"
             /\ calls'[i].ret = parse(stored).value
             /\ calls'[i].pool = NotBuilt
             /\ calls'[i].requests = 0
             /\ localStorage' = localStorage
             /\ setItems' = setItems ]_vars

\* An invocation has returned the books of the entry stored under its key
\* without a pool or a request, although no credential is configured.
CacheHitShortCircuitWitness ==
    \E i \in 1..NumCalls :
        /\ calls[i].pc = "returned"
        /\ calls[i].requests = 0
        /\ calls[i].pool = NotBuilt
        /\ HasBooks(calls[i].ret)
        /\ localStorage[recCacheKey(calls[i].req)] = stringify(calls[i].ret)
        /\ ~apiKey

\* what an invocation does on a miss, up to its first await
ProceedsAsOnMiss(call) ==
    IF ~apiKey THEN call.pc = "threw" /\ call.error = "API Key is missing."
    ELSE IF Truthy(call.req.query) /\ call.pool = <<>>
         THEN call.pc = "returned" /\ call.ret = JsonBooks(<<>>) /\ call.requests = 0
    ELSE call.pc = "awaiting" /\ call.requests = 1 /\ call.pool # NotBuilt

\* C7 - Corrupt cache entry recovery: an invocation that finds under its key
\* a stored value that does not parse removes the entry, goes on as on a
\* miss, and does not raise the parse error.
CorruptEntryRecovery ==
    [][ \A i \in 1..NumCalls :
          LET key == recCacheKey(calls'[i].req) IN
          (Starts(i) /\ localStorage[key] # NoItem /\ ~parse(localStorage[key]).ok)
          => /\ localStorage'[key] = NoItem
             /\ ProceedsAsOnMiss(calls'[i])
             /\ calls'[i].error # "SyntaxError" ]_vars

\* no candidate survives the selection for this request, whatever the jitter
ZeroSurvive(req) == \A jitter \in JitterChoices : TopCandidatesOf(req, jitter) = <<>>

\* the stored text is no hit: nothing, an empty string, or unparseable
IsMiss(stored) == stored = NoItem \/ ~parse(stored).ok

\* C8 as stated - Query-mode empty short-circuit: on a miss with a query
\* supplied and no surviving candidate, the invocation returns {books: []}
\* and issues no curation request.
QueryEmptyShortCircuitAlways ==
    [][ \A i \in 1..NumCalls :
          LET req == calls'[i].req IN
          ( /\ Starts(i) /\ IsMiss(localStorage[recCacheKey(req)])
            /\ Truthy(req.query) /\ ZeroSurvive(req) )
          => /\ calls'[i].pc = "returned"
             /\ calls'[i].ret = JsonBooks(<<>>)
             /\ calls'[i].requests = 0 ]_vars

\* C8 as amended - on a miss with a query supplied and no surviving
\* candidate, the invocation issues no curation request; with the API key
\* configured it returns {books: []} as a normal result and writes nothing to
\* the cache; without the API key it throws "API Key is missing.".
QueryEmptyShortCircuit ==
    [][ \A i \in 1..NumCalls :
          LET req == calls'[i].req IN
          ( /\ Starts(i) /\ IsMiss(localStorage[recCacheKey(req)])
            /\ Truthy(req.query) /\ ZeroSurvive(req) )
          => /\ calls'[i].requests = 0
             /\ setItems' = setItems
             /\ apiKey => /\ calls'[i].pc = "returned"
                          /\ calls'[i].ret = JsonBooks(<<>>)
                          /\ calls'[i].error = ""
             /\ ~apiKey => /\ calls'[i].pc = "threw"
                           /\ calls'[i].error = "API Key is missing." ]_vars

\* With the API key configured, an invocation with a query that matches no
\* book has returned the empty result without a request, after a miss.
QueryEmptyShortCircuitWitness ==
    \E i \in 1..NumCalls :
        /\ apiKey
        /\ calls[i].pc = "returned"
        /\ Truthy(calls[i].req.query) /\ ZeroSurvive(calls[i].req)
        /\ calls[i].pool = <<>>
        /\ calls[i].ret = JsonBooks(<<>>)
        /\ calls[i].requests = 0
        /\ localStorage[recCacheKey(calls[i].req)] = NoItem

\* the curation request was rejected, or its response text does not parse
ServiceFailed(resp) ==
    /\ resp # NoResponse
    /\ \/ ~resp.ok
       \/ (resp.text # <<>> /\ ~parse(resp.text).ok)

\* C9 - Service failure propagation: an invocation whose curation request
\* is rejected, or whose response does not parse, throws to its caller, has
\* issued exactly one request, and leaves the cache as it was.
ServiceFailurePropagation ==
    [][ \A i \in 1..NumCalls :
          (Responds(i) /\ ServiceFailed(calls'[i].resp))
          => /\ calls'[i].pc = "threw"
             /\ calls'[i].error \in {"request failed", "SyntaxError"}
             /\ calls'[i].requests = 1
             /\ localStorage' = localStorage
             /\ setItems' = setItems ]_vars

\* One invocation has thrown after a rejected request, another after a
\* response that does not parse, each after a single request.
ServiceFailurePropagationWitness ==
    \E i \in 1..NumCalls : \E j \in 1..NumCalls :
        /\ calls[i].pc = "threw" /\ ~calls[i].resp.ok /\ calls[i].resp # NoResponse
        /\ calls[i].requests = 1
        /\ calls[j].pc = "threw" /\ calls[j].resp.ok /\ ~parse(calls[j].resp.text).ok
        /\ calls[j].requests = 1

(***************************************************************************)
(* Properties of the cache key (SpecKey).                                  *)
(***************************************************************************)
\* "no query": the argument is omitted or the empty string
SameQuery(p, q) == p = q \/ (~Truthy(p) /\ ~Truthy(q))

\* the number of request fields in which a and b differ
FieldsDiffering(a, b) ==
      (IF a.grade # b.grade THEN 1 ELSE 0)
    + (IF a.theme # b.theme THEN 1 ELSE 0)
    + (IF a.month # b.month THEN 1 ELSE 0)
    + (IF a.limit # b.limit THEN 1 ELSE 0)
    + (IF ~SameQuery(a.query, b.query) THEN 1 ELSE 0)

\* C5 - Cache key determinism and injectivity: requests equal in every field
\* have the same key, and requests that differ in one field have different
\* keys.
CacheKeyInjective ==
    keyPair.set =>
        /\ FieldsDiffering(keyPair.a, keyPair.b) = 0 => keyPair.ka = keyPair.kb
        /\ FieldsDiffering(keyPair.a, keyPair.b) = 1 => keyPair.ka # keyPair.kb

(***************************************************************************)
(* Properties of verifyBookCoverMatch (SpecVerify).                        *)
(***************************************************************************)
Negative(v) == v.t = "verdict" /\ ~v.isMatch /\ v.reason # ""

\* the verification request was rejected, or its response text is empty or
\* does not parse
VerifyFailed(resp) ==
    /\ resp # NoResponse
    /\ (~resp.ok \/ resp.text = <<>> \/ ~parseVerdict(resp.text).ok)

PositiveMatch(u) ==
    /\ verifs[u].pc = "awaiting"
    /\ verifs'[u].pc = "returned"
    /\ verifs'[u].resp.ok
    /\ verifs'[u].ret.t = "verdict"
    /\ verifs'[u].ret.isMatch

\* C11 - An unverified image is never accepted: once a file has been chosen,
\* the card's displayed cover changes and onUpdateCover is called only in a
\* step in which the upload's verification returned a positive match, and
\* an override changes only to the image of such an upload; so on a negative
\* verdict or a verification error both are left as they were.
UnverifiedImageNeverAccepted ==
    [][ /\ \A u \in 1..NumVerifs :
            ( /\ uploads[u].pc # "idle"
              /\ \/ uploads'[u].coverUrl # uploads[u].coverUrl
                 \/ uploads'[u].updates # uploads[u].updates )
            => /\ PositiveMatch(u)
               /\ uploads'[u].coverUrl = uploads[u].base64String
        /\ \A b \in UploadBookIds :
            coverOverrides'[b] # coverOverrides[b]
            => \E u \in 1..NumVerifs :
                /\ PositiveMatch(u)
                /\ uploads[u].bookId = b
                /\ coverOverrides'[b] = uploads[u].base64String ]_vars

\* One upload was accepted after a positive match and its image is the
\* book's override; another was refused after a negative verdict and the
\* saved override of its book and its displayed cover are what they were.
UnverifiedImageNeverAcceptedWitness ==
    \E u \in 1..NumVerifs : \E w \in 1..NumVerifs :
        /\ uploads[u].pc = "done" /\ uploads[u].updates = 1
        /\ verifs[u].ret.isMatch
        /\ coverOverrides[uploads[u].bookId] = uploads[u].file
        /\ uploads[u].coverUrl = uploads[u].file
        /\ uploads[w].pc = "done" /\ uploads[w].updates = 0
        /\ verifs[w].pc = "returned" /\ ~verifs[w].ret.isMatch
        /\ uploads[w].alert # NoAlert
        /\ coverOverrides[uploads[w].bookId] = SavedOverride
        /\ uploads[w].coverUrl = SavedOverride

(***************************************************************************)
(* Properties of the category split (SpecSplit).                           *)
(***************************************************************************)
\* C12 - Category split: for every requested count N >= 10 the Must Read
\* count is the rounded-down half of N (which is max(5, floor(N/2)), the half
\* being at least 5), the Recommended count is N minus it, the two sum to
\* N and Must Read is at least 5; for N = 11 the split is 5 and 6.
CategorySplit ==
    (split.done /\ split.limit >= 10)
    => /\ 2 * split.mustRead <= split.limit
       /\ split.limit <= 2 * split.mustRead + 1
       /\ split.mustRead >= 5
       /\ split.recommended = split.limit - split.mustRead
       /\ split.mustRead + split.recommended = split.limit
       /\ split.limit = 11 => (split.mustRead = 5 /\ split.recommended = 6)

\* The split of 11 has been computed: 5 Must Read and 6 Recommended.
CategorySplitWitness ==
    split.done /\ split.limit = 11 /\ split.mustRead = 5 /\ split.recommended = 6

\* C13 as stated - on odd requested counts the split is biased toward Must
\* Read: for every odd N >= 10, Must Read >= Recommended.
OddSplitFavoursMustRead ==
    (split.done /\ split.limit >= 10 /\ split.limit % 2 = 1)
    => split.mustRead >= split.recommended

\* C13 as amended - on odd requested counts the split is biased toward
\* Recommended: for every odd N >= 10, Recommended is exactly one more than
\* Must Read; for every even N >= 10 the two counts are equal.
OddSplitFavoursRecommended ==
    (split.done /\ split.limit >= 10)
    => IF split.limit % 2 = 1
       THEN split.recommended = split.mustRead + 1
       ELSE split.recommended = split.mustRead

\* The split of 15 has been computed: 7 Must Read and 8 Recommended.
OddSplitFavoursRecommendedWitness ==
    split.done /\ split.limit = 15 /\ split.mustRead = 7 /\ split.recommended = 8

(***************************************************************************)
(* Properties of the grade range resolver (SpecRange).                     *)
(***************************************************************************)
\* The intervals the grade labels stand for, in tenths, in the order in
\* which the ordinals are looked for.
OrdinalIntervals ==
    << [ordinal |-> <<"1", "s", "t">>, min |-> 1,  max |-> 15],
       [ordinal |-> <<"2", "n", "d">>, min |-> 10, max |-> 28],
       [ordinal |-> <<"3", "r", "d">>, min |-> 20, max |-> 38],
       [ordinal |-> <<"4", "t", "h">>, min |-> 30, max |-> 48],
       [ordinal |-> <<"5", "t", "h">>, min |-> 35, max |-> 60],
       [ordinal |-> <<"6", "t", "h">>, min |-> 35, max |-> 80] >>

\* the ordinal occurs in the label, upper and lower case taken as equal
OccursIgnoringCase(label, ordinal) ==
    \E i \in 0..(Len(label) - Len(ordinal)) :
        \A j \in 1..Len(ordinal) : LowerChar(label[i + j]) = LowerChar(ordinal[j])

\* the positions in OrdinalIntervals of the ordinals the label contains
OrdinalsIn(label) ==
    { n \in 1..Len(OrdinalIntervals) : OccursIgnoringCase(label, OrdinalIntervals[n].ordinal) }

\* C15 - Grade range resolution: getBlRange returns the interval of the
\* first of "1st".."6th" that the label contains, case-insensitively, and
\* 0.1-13.0 for a label that contains none of them.
GradeRangeResolution ==
    gradeRange.done
    => LET hits == OrdinalsIn(gradeRange.grade) IN
       IF hits = {}
       THEN gradeRange.range = [min |-> 1, max |-> 130]
       ELSE LET n == CHOOSE k \in hits : \A l \in hits : k <= l
            IN  gradeRange.range = [min |-> OrdinalIntervals[n].min,
                                    max |-> OrdinalIntervals[n].max]

\* The label "6th 3Rd Grade" has been resolved to the 3rd grade interval.
GradeRangeResolutionWitness ==
    /\ gradeRange.done
    /\ gradeRange.grade = <<"6", "t", "h", " ", "3", "R", "d", " ", "G", "r", "a", "d", "e">>
    /\ gradeRange.range = [min |-> 20, max |-> 38]

(***************************************************************************)
(* Properties of the relevance scorer (SpecScore).                         *)
(***************************************************************************)
\* C16 as stated - Query disqualification: for every non-empty query that
\* does not occur (upper and lower case taken as equal) in the book's
\* searchable text, the score is exactly -100.
QueryDisqualificationAnyQuery ==
    ( /\ scoring.done
      /\ Truthy(scoring.query)
      /\ ~Includes(SearchText(scoring.book), toLowerCase(scoring.query)) )
    => scoring.score = 0 - 100

\* C16 as amended - for every query that is non-empty after trimming and
\* whose trimmed, lower-cased form does not occur in the book's searchable
\* text, the score is exactly -100 whatever the month and theme; a query of
\* white space only disqualifies nothing (the score is that of no query).
QueryDisqualification ==
    scoring.done
    => /\ ( /\ Truthy(scoring.query)
            /\ trim(scoring.query) # <<>>
            /\ ~Includes(SearchText(scoring.book), trim(toLowerCase(scoring.query))) )
          => scoring.score = 0 - 100
       /\ (Truthy(scoring.query) /\ trim(scoring.query) = <<>>)
          => scoring.score >= 0

\* "Cat Tales" has been scored -100 for the query "wizard" although its
\* theme bucket and the month's seasonal keyword would have added points
\* for other books.
QueryDisqualificationWitness ==
    /\ scoring.done
    /\ scoring.book = Catalog[1]
    /\ scoring.query = <<"w", "i", "z", "a", "r", "d">>
    /\ scoring.theme = <<"A", "n", "i", "m", "a", "l", "s">>
    /\ scoring.score = 0 - 100

\* the theme buckets that count for a theme and a text
BucketsMatching(theme, text) ==
    IF toLowerCase(theme) = <<"a", "l", "l", " ", "t", "h", "e", "m", "e", "s">> THEN {}
    ELSE { n \in 1..Len(ThemeBuckets) :
            /\ Includes(toLowerCase(theme), ThemeBuckets[n].name)
            /\ \E k \in ThemeBuckets[n].keywords : Includes(text, k) }

\* the seasonal bonuses that count for a month and a text
SeasonsMatching(month, text) ==
    { n \in 1..Len(SeasonalBonuses) :
        /\ toLowerCase(month) = SeasonalBonuses[n].month
        /\ \E k \in SeasonalBonuses[n].keywords : Includes(text, k) }

\* C20 - Additive relevance score without a query: the score is 30 times
\* the number of theme buckets whose name occurs in the theme and one of
\* whose keywords occurs in the text (none for "All Themes"), plus 5 when
\* the month is one of the four seasonal months and its keyword occurs.
AdditiveScore ==
    (scoring.done /\ ~Truthy(scoring.query))
    => LET text == SearchText(scoring.book) IN
       /\ scoring.score = 30 * Cardinality(BucketsMatching(scoring.theme, text))
                          + 5 * Cardinality(SeasonsMatching(scoring.month, text))
       /\ Cardinality(SeasonsMatching(scoring.month, text)) <= 1
       /\ toLowerCase(scoring.month) \notin
             { <<"j", "a", "n", "u", "a", "r", "y">>, <<"f", "e", "b", "r", "u", "a", "r", "y">>,
               <<"o", "c", "t", "o", "b", "e", "r">>, <<"d", "e", "c", "e", "m", "b", "e", "r">> }
          => scoring.score = 30 * Cardinality(BucketsMatching(scoring.theme, text))

\* "Zoo Magic" has been scored without a query for a theme naming three
\* buckets in January: three buckets and the seasonal bonus, 95.
AdditiveScoreWitness ==
    /\ scoring.done
    /\ ~Truthy(scoring.query)
    /\ scoring.book.id = "4"
    /\ scoring.score = 95

(***************************************************************************)
(* Properties of the candidate selection (SpecSelect).                     *)
(***************************************************************************)
\* the elements of a sequence
Members(seq) == { seq[n] : n \in 1..Len(seq) }

\* the entry of the selection's catalog that a scored candidate came from
EntryOf(c) ==
    LET catalog == Catalogs[selection.catalog]
    IN  catalog[CHOOSE i \in 1..Len(catalog) : catalog[i].id = c.id]

\* C14 - Grade filter with range widening: without a query every candidate
\* handed on has min - 0.3 <= bl <= max + 0.3 for the grade's interval and
\* every catalog entry in that interval is eligible; with a query no entry
\* is excluded because of its bl.
GradeFilterWidening ==
    selection.done
    => LET catalog == Catalogs[selection.catalog]
           range   == getBlRange(selection.req.grade)
       IN  IF ~Truthy(selection.req.query)
           THEN /\ \A c \in Members(selection.pool) :
                       range.min - 3 <= c.bl /\ c.bl <= range.max + 3
                /\ \A i \in 1..Len(catalog) :
                       (range.min - 3 <= catalog[i].bl /\ catalog[i].bl <= range.max + 3)
                       => i \in Members(selection.candidates)
           ELSE selection.candidates = [i \in 1..Len(catalog) |-> i]

\* C17 - Candidate ordering and truncation: the pool has at most
\* max(40, 2 x requestedCount) entries, all of them surviving candidates, in
\* descending order of combined score, and no surviving candidate left out
\* of the pool has a higher combined score than a candidate in the pool.
CandidateOrderingAndTruncation ==
    selection.done
    => LET pool  == selection.pool
           limit == selection.req.limit
       IN  /\ Len(pool) <= (IF 2 * limit > 40 THEN 2 * limit ELSE 40)
           /\ Members(pool) \subseteq Members(selection.scored)
           /\ \A p \in 1..Len(pool) : \A q \in 1..Len(pool) :
                   p < q => pool[p].score >= pool[q].score
           /\ \A c \in Members(selection.scored) \ Members(pool) :
                   \A m \in Members(pool) : c.score <= m.score

\* A request for 25 books has been given a pool of 50 candidates, not all
\* of one score, while more than 50 candidates survived.
CandidateOrderingAndTruncationWitness ==
    /\ selection.done
    /\ selection.req.limit = 25
    /\ Len(selection.pool) = 50
    /\ Len(selection.scored) > 50
    /\ selection.pool[1].score > selection.pool[50].score

\* C18 as stated - Disqualification threshold: no candidate in the pool has
\* a combined score of -5 or less, and with a non-empty query the searchable
\* text of every pool member contains the query (upper and lower case taken
\* as equal).
DisqualificationThresholdAnyQuery ==
    selection.done
    => /\ \A c \in Members(selection.pool) : c.score > 0 - 50
       /\ Truthy(selection.req.query)
          => \A c \in Members(selection.pool) :
                Includes(SearchText(EntryOf(c)), toLowerCase(selection.req.query))

\* C18 as amended - no candidate in the pool has a combined score of -5 or
\* less, whatever the jitter; a book the scorer disqualified with -100 is
\* never in the pool; so with a query that is non-empty after trimming, the
\* searchable text of every pool member contains the trimmed, lower-cased
\* query.
DisqualificationThreshold ==
    selection.done
    => LET req == selection.req IN
       /\ \A c \in Members(selection.pool) :
            /\ c.score > 0 - 50
            /\ getRelevancyScore(EntryOf(c), req.month, req.theme, req.query) # 0 - 100
       /\ (Truthy(req.query) /\ trim(req.query) # <<>>)
          => \A c \in Members(selection.pool) :
                Includes(SearchText(EntryOf(c)), trim(toLowerCase(req.query)))

\* The query "cat" over the larger catalog: the pool holds the entries
\* whose text contains "cat" and leaves the disqualified ones out.
DisqualificationThresholdWitness ==
    /\ selection.done
    /\ selection.catalog = 2
    /\ selection.req.query = <<"c", "a", "t">>
    /\ Len(selection.pool) > 0
    /\ Len(selection.pool) < Len(selection.candidates)
    /\ Len(selection.candidates) = CatalogSize

(***************************************************************************)
(* Properties of the catalog loader (SpecLoad).                            *)
(***************************************************************************)
\* the line has at least 8 tab-separated columns and its 8th column parses
\* as a finite number
IsCatalogLine(line) ==
    LET cols == splitBy(line, "\t")
    IN  Len(cols) >= 8 /\ parseFloat(cols[8]).kind = "number"

\* C19 - Catalog loading: the catalog is exactly the subsequence, in input
\* order, of the lines of the text that have at least 8 tab-separated
\* columns and whose 8th column parses as a finite number; every entry has
\* a numeric bl; loading the same text twice gives equal catalogs.
CatalogLoading ==
    catalogLoad.done
    => LET kept == SelectSeq(splitBy(catalogLoad.text, "\n"), IsCatalogLine)
       IN  /\ catalogLoad.books = [n \in 1..Len(kept) |-> RawBook(splitBy(kept[n], "\t"))]
           /\ \A n \in 1..Len(catalogLoad.books) : ~isNaN(catalogLoad.books[n].bl)
           /\ catalogLoad.again = catalogLoad.books

(***************************************************************************)
(* More properties of the cover resolution engine (SpecCover).             *)
(***************************************************************************)
\* card c shows a url that a cover resolution delivered (not an override)
Delivered(c) ==
    /\ cards[c].pc \in {"shown", "settled"}
    /\ cards[c].coverUrl \notin {NoUrl, <<"data:", "override">>}

\* the effect of card c runs in this step, without an override, for key k
ResolvesFor(c, k) ==
    /\ cards[c].pc = "idle" /\ cards'[c].pc # "idle"
    /\ cards'[c].key = k
    /\ cards'[c].coverUrl # <<"data:", "override">>

\* C21 - Resolved cover urls are never invalidated: once the completed cache
\* holds a url for a key, the entry is never removed or changed, and every
\* later resolution for that key yields that url at once and starts no
\* lookup and no race.
CoverCacheNeverInvalidated ==
    [][ \A k \in CoverKeys :
          coverCache[k] # NoUrl
          => /\ coverCache'[k] = coverCache[k]
             /\ \A c \in 1..NumCards :
                  ResolvesFor(c, k)
                  => /\ cards'[c].pc = "shown"
                     /\ cards'[c].coverUrl = coverCache[k]
                     /\ fetchCalls' = fetchCalls
                     /\ races' = races
                     /\ promiseCache' = promiseCache ]_vars

\* A card is served from the completed cache what an earlier card's
\* resolution stored, and the key has had one pair of lookups.
CoverCacheNeverInvalidatedWitness ==
    \E c \in 1..NumCards : \E d \in 1..NumCards :
        /\ cards[d].pc = "settled" /\ cards[c].pc = "shown"
        /\ cards[c].key = cards[d].key
        /\ cards[c].coverUrl = coverCache[cards[c].key]
        /\ cards[c].coverUrl = races[cards[d].awaits].result
        /\ fetchCalls[cards[c].key] = [gb |-> 1, ol |-> 1]

\* the url is routed through the image proxy with the fixed width and
\* output format, and carries no protocol of its own
IsProxied(url) ==
    /\ Len(url) >= 3
    /\ url[1] = "https://wsrv.nl/?url="
    /\ url[Len(url)] = "&w=400&output=webp"
    /\ \A i \in 2..(Len(url) - 1) : url[i] \notin {"http://", "https://", "data:"}

\* C22 (as stated) - Uniform cover url shape: every url in the completed
\* cache and every url a resolution delivered to a card is in the proxied
\* form.
UniformCoverUrlShape ==
    /\ \A k \in CoverKeys : coverCache[k] # NoUrl => IsProxied(coverCache[k])
    /\ \A c \in 1..NumCards : Delivered(c) => IsProxied(cards[c].coverUrl)

\* C22 (amended) - every url in the completed cache and every url a
\* resolution delivered to a card is in the proxied form, except that a
\* data: url returned by a lookup is cached and delivered as it is; no
\* http(s) source url is ever cached or delivered.
UniformCoverUrlShapeButData ==
    /\ \A k \in CoverKeys :
          coverCache[k] # NoUrl
          => IsProxied(coverCache[k]) \/ StartsWith(coverCache[k], <<"data:">>)
    /\ \A c \in 1..NumCards :
          Delivered(c)
          => IsProxied(cards[c].coverUrl) \/ StartsWith(cards[c].coverUrl, <<"data:">>)

\* One card was delivered a proxied url and another the data: url of a
\* lookup, and both urls are in the completed cache.
UniformCoverUrlShapeButDataWitness ==
    \E c \in 1..NumCards : \E d \in 1..NumCards :
        /\ cards[c].pc = "settled" /\ cards[d].pc = "settled"
        /\ IsProxied(cards[c].coverUrl)
        /\ coverCache[cards[c].key] = cards[c].coverUrl
        /\ StartsWith(cards[d].coverUrl, <<"data:">>)
        /\ coverCache[cards[d].key] = cards[d].coverUrl

\* C26 - A cover race resolves exactly once and to a single value: a
\* lookup that returns a usable url while the race is pending fixes the
\* result (its proxied url), a resolved race never changes whatever the
\* other lookup does later, a race is absent only when both lookups have
\* failed, and the cards awaiting one key await one race and are delivered
\* one url.
CoverRaceResolvesOnce ==
    /\ [](\A r \in 1..Len(races) :
            races[r].result = Absent => races[r].gb = Failed /\ races[r].ol = Failed)
    /\ [](\A c \in 1..NumCards : \A d \in 1..NumCards :
            (cards[c].awaits # 0 /\ cards[d].awaits # 0 /\ cards[c].key = cards[d].key)
            => /\ cards[c].awaits = cards[d].awaits
               /\ (cards[c].coverUrl # NoUrl /\ cards[d].coverUrl # NoUrl)
                  => cards[c].coverUrl = cards[d].coverUrl)
    /\ [][ \A r \in 1..Len(races) :
            /\ races[r].result # Pending => races'[r].result = races[r].result
            /\ (races[r].result = Pending /\ races[r].gb = Running /\ races'[r].gb.ok)
               => races'[r].result = getProxiedUrl(races'[r].gb.url)
            /\ (races[r].result = Pending /\ races[r].ol = Running /\ races'[r].ol.ok)
               => races'[r].result = getProxiedUrl(races'[r].ol.url) ]_vars

\* Both lookups of a race returned a url, Open Library first: the race kept
\* the Open Library url and both cards awaiting the key were delivered it.
CoverRaceResolvesOnceWitness ==
    \E c \in 1..NumCards : \E d \in 1..NumCards :
        /\ c # d
        /\ cards[c].pc = "settled" /\ cards[d].pc = "settled"
        /\ cards[c].awaits = cards[d].awaits
        /\ LET race == races[cards[c].awaits]
           IN  /\ race.gb.ok /\ race.ol.ok
               /\ race.result = getProxiedUrl(race.ol.url)
               /\ race.result # getProxiedUrl(race.gb.url)
               /\ cards[c].coverUrl = race.result
               /\ cards[d].coverUrl = race.result

\* C27 - In-flight entries are never pruned: an entry of the in-flight map
\* stays as it is once set, and at most one pair of lookups is ever started
\* for a key, whatever the outcome of its race.
InFlightNeverPruned ==
    /\ [](\A k \in CoverKeys : fetchCalls[k].gb <= 1 /\ fetchCalls[k].ol <= 1)
    /\ [][ \A k \in CoverKeys :
            promiseCache[k] # 0 => promiseCache'[k] = promiseCache[k] ]_vars

\* A card has settled on a race that resolved to absent, another card runs
\* a resolution for the same key on that same race, and the key has had one
\* pair of lookups.
InFlightNeverPrunedWitness ==
    \E c \in 1..NumCards : \E d \in 1..NumCards :
        /\ c # d
        /\ cards[d].pc = "settled"
        /\ races[cards[d].awaits].result = Absent
        /\ cards[c].pc \in {"awaiting", "settled"}
        /\ cards[c].key = cards[d].key
        /\ cards[c].awaits = promiseCache[cards[d].key]
        /\ fetchCalls[cards[d].key] = [gb |-> 1, ol |-> 1]

\* C28 - Cover cache keys identify the book: the cards of two different
\* (title, author) pairs never use the same key, and so never await the
\* same race or show the same resolved cover.
CoverKeysIdentifyBooks ==
    \A c \in 1..NumCards : \A d \in 1..NumCards :
        (cards[c].pc # "idle" /\ cards[d].pc # "idle" /\ cards[c].book # cards[d].book)
        => /\ cards[c].key # cards[d].key
           /\ (cards[c].awaits # 0 /\ cards[d].awaits # 0)
              => cards[c].awaits # cards[d].awaits

(***************************************************************************)
(* More properties of generateBookRecommendations (SpecRec).               *)
(***************************************************************************)
\* C25 - Recommendation requests are not de-duplicated: an invocation that
\* misses the cache while an identical request is still awaiting the
\* curation service issues a curation request of its own, and each of them
\* that gets a result with books writes it under the same key, so that the
\* entry is the one written last.
RequestsNotDeduplicated ==
    [][ \A i \in 1..NumCalls : \A j \in 1..NumCalls :
          LET key == recCacheKey(calls'[i].req) IN
          /\ ( /\ i # j /\ Starts(i) /\ apiKey
               /\ calls[j].pc = "awaiting" /\ calls[j].req = calls'[i].req
               /\ IsMiss(localStorage[key]) )
             => /\ calls'[i].pc = "awaiting"
                /\ calls'[i].requests = 1
                /\ calls'[j].requests = 1
          /\ (Responds(i) /\ calls'[i].pc = "returned" /\ HasBooks(calls'[i].ret))
             => /\ localStorage'[key] = stringify(calls'[i].ret)
                /\ <<key, stringify(calls'[i].ret)>> \in setItems' ]_vars

\* Two identical requests have each issued a curation request and written
\* a different result under the one key, and the entry is one of the two.
RequestsNotDeduplicatedWitness ==
    \E i \in 1..NumCalls : \E j \in 1..NumCalls :
        LET key == recCacheKey(calls[i].req) IN
        /\ i # j /\ calls[i].req = calls[j].req
        /\ calls[i].pc = "returned" /\ calls[j].pc = "returned"
        /\ calls[i].requests = 1 /\ calls[j].requests = 1
        /\ HasBooks(calls[i].ret) /\ HasBooks(calls[j].ret)
        /\ calls[i].ret # calls[j].ret
        /\ <<key, stringify(calls[i].ret)>> \in setItems
        /\ <<key, stringify(calls[j].ret)>> \in setItems
        /\ localStorage[key] = stringify(calls[i].ret)

(***************************************************************************)
(* More properties of the candidate selection (SpecSelect).                *)
(***************************************************************************)
\* C30 - Selector and scorer agree on query mode: the grade filter is
\* skipped, and the query-mode empty short-circuit applies to an empty
\* pool, exactly when the scorer applies query scoring to the query.
SelectorAndScorerAgree ==
    selection.done
    => LET catalog == Catalogs[selection.catalog]
           req     == selection.req
           all     == [i \in 1..Len(catalog) |-> i]
           inRange == SelectSeq(all, LAMBDA i : inGradeRange(catalog[i], req.grade))
       IN  /\ queryScored(req.query) => selection.candidates = all
           /\ ~queryScored(req.query) => selection.candidates = inRange
           /\ shortCircuits(req.query, <<>>) <=> queryScored(req.query)

(***************************************************************************)
(* Properties of the monthly view (SpecFetch).                             *)
(***************************************************************************)
\* the outcome of fetch i is handled in this step
Settles(i) == i \notin app.applied /\ i \in app'.applied

\* fetch i was issued before fetch j
IssuedBefore(i, j) ==
    \E m \in 1..Len(app.order) : \E n \in 1..Len(app.order) :
        m < n /\ app.order[m] = i /\ app.order[n] = j

\* C23 - Out-of-order responses: the result of a fetch is displayed when it
\* resolves, whether or not a later fetch has been issued or has already
\* been displayed, so the books displayed in the end can be those of the
\* earlier of two overlapping fetches.
StaleResultApplied ==
    [][ \A i \in 1..NumCalls :
          (Settles(i) /\ calls[i].pc = "returned" /\ HasBooks(calls[i].ret))
          => app'.books = calls[i].ret.books ]_vars

\* Two fetches for different selections have both been handled, their
\* results differ, and the books displayed are those of the fetch issued
\* first.
StaleResultAppliedWitness ==
    \E i \in 1..NumCalls : \E j \in 1..NumCalls :
        /\ IssuedBefore(i, j)
        /\ app.applied = {i, j}
        /\ calls[i].requests = 1 /\ calls[j].requests = 1
        /\ calls[i].req # calls[j].req
        /\ HasBooks(calls[i].ret) /\ HasBooks(calls[j].ret)
        /\ calls[i].ret # calls[j].ret
        /\ app.books = calls[i].ret.books
        /\ ~app.loading

\* C24 - A failed recommendation request leaves prior results untouched:
\* when generateBookRecommendations throws, handling the failure leaves the
\* displayed books as they were, sets the error message and clears the
\* loading flag; issuing the request did not change the books either.
FailureKeepsBooks ==
    [][ \A i \in 1..NumCalls :
          /\ (Settles(i) /\ calls[i].pc = "threw")
             => /\ app'.books = app.books
                /\ app'.error = "Failed to generate recommendations. Please check your API key."
                /\ ~app'.loading
          /\ (calls[i].pc = "idle" /\ calls'[i].pc # "idle")
             => app'.books = app.books ]_vars

\* The first fetch displayed its books, the second fetch failed at the
\* curation service: the books of the first are still displayed, with the
\* error message, and the loading flag is cleared.
FailureKeepsBooksWitness ==
    \E i \in 1..NumCalls : \E j \in 1..NumCalls :
        /\ IssuedBefore(i, j)
        /\ app.applied = {i, j}
        /\ HasBooks(calls[i].ret)
        /\ calls[j].pc = "threw" /\ calls[j].requests = 1
        /\ app.books = calls[i].ret.books
        /\ app.error = "Failed to generate recommendations. Please check your API key."
        /\ ~app.loading

\* C29 - Loading flag tracks in-flight work: the loading flag is true
\* whenever a fetch of the monthly view is still awaiting its
\* recommendations.
LoadingTracksInFlight ==
    (\E i \in 1..NumCalls :
        /\ i \notin app.applied
        /\ calls[i].pc = "awaiting")
    => app.loading

====
